---- MODULE Spec2Model ----
(***************************************************************************)
(* Chapter-marker timeline of odmpy: parse_part_path, parse_toc and        *)
(* merge_toc of odmpy/libby.py.                                            *)
(*                                                                         *)
(* Strings that the code takes apart (TOC paths) are sequences of          *)
(* one-character strings; titles are only compared, so they stay atoms.    *)
(* Times are integers counting tenths of a second, so that a fragment      *)
(* such as "#2.5" has an exact value; a spine duration of 10 s is 100.     *)
(* An OrderedDict is a sequence of records in insertion order.             *)
(***************************************************************************)
EXTENDS Integers, Sequences, FiniteSets, TLC

VARIABLES
    \* parse_toc / merge_toc (libby.py)
    toc, spine, pc, err, err_detail, parsed_toc, chapters, mk, merged,
    first_merged,
    \* a direct call of parse_part_path (libby.py)
    call_title, call_path, call_result,
    \* one pass of the marker loop of process_odm (processing.py)
    marker_timestamp, timestamp, ts_mark,
    \* the part loop of process_odm (processing.py)
    od_parts, od_i, track_count, file_tracks, audio_lengths_ms, keep_cover,
    od_log, add_chapters, merge_output, part_chapters, merged_markers,
    \* runs of process_odm / process_audiobook_loan over one download folder
    dl_mode, dl_args, dl_runs, dl_i, dl_exit, fs_odm, fs_license, fs_parts,
    fs_merged, license_requests, part_requests,
    \* a LibbyClient and a call of get_loan_format (libby.py)
    identity, identity_token, identity_settings_file, settings_file,
    loan, prefer_open_format, loan_format

tocVars == <<toc, spine, parsed_toc, chapters, mk, merged, first_merged>>
callVars == <<call_title, call_path, call_result>>
tsVars == <<marker_timestamp, timestamp, ts_mark>>
odmVars == <<od_parts, od_i, track_count, file_tracks, audio_lengths_ms,
             keep_cover, od_log, add_chapters, merge_output, part_chapters,
             merged_markers>>

dlVars == <<dl_mode, dl_args, dl_runs, dl_i, dl_exit, fs_odm, fs_license,
            fs_parts, fs_merged, license_requests, part_requests>>
clientVars == <<identity, identity_token, identity_settings_file, settings_file>>
loanVars == <<loan, prefer_open_format, loan_format>>

vars == <<pc, err, err_detail, tocVars, callVars, tsVars, odmVars, dlVars,
          clientVars, loanVars>>

----------------------------------------------------------------------------
(* Bounds and sample inputs *)

\* largest number of (top-level + nested) entries of a TOC
MaxEntries == 3

\* length of the brace-delimited token of FILE_PART_RE ("{36}")
UuidLen == 36

Titles == {"Intro", "Ch1"}

\* title carried by nested entries themselves (parse_toc never reads it)
NestedTitle == "Sub"

BaseUrl == "http://od/"

Uuid(c) == [i \in 1..UuidLen |-> c]

PartA == <<"{">> \o Uuid("A") \o <<"}", "p", "1">>
PartB == <<"{">> \o Uuid("B") \o <<"}", "p", "2">>
PartC == <<"{">> \o Uuid("C") \o <<"}", "p", "3">>

\* the brace token is one character short
BadPath == <<"{">> \o [i \in 1..(UuidLen - 1) |-> "A"] \o <<"}", "p", "1">>

\* the (title, path) pairs a top-level TOC item is drawn from
TopEntries ==
    ( Titles \X {PartA, PartA \o <<"#", "5">>, PartB} )
    \cup { <<"Ch1", PartB \o <<"#", "2", ".", "5">> >>,
           <<"Intro", PartC>>,
           <<"Ch1", BadPath>> }

\* the paths a nested ("contents") entry is drawn from
NestedPaths == { PartA \o <<"#", "5">>, PartB, BadPath }

\* declared audio-duration of each part, in tenths of a second
DurationOf(p) ==
    CASE p = PartA -> 100
      [] p = PartB -> 20
      [] OTHER     -> 50

BytesOf(p) ==
    CASE p = PartA -> 1000
      [] p = PartB -> 200
      [] OTHER     -> 500

UrlPathOf(p) ==
    CASE p = PartA -> "a.mp3"
      [] p = PartB -> "b.mp3"
      [] OTHER     -> "c.mp3"

\* spine record of part p listed at (0-based) position n
SpineRecord(p, n) ==
    [ odread_original_path   |-> p,
      path                   |-> UrlPathOf(p),
      audio_duration         |-> DurationOf(p),
      odread_file_bytes      |-> BytesOf(p),
      odread_spine_position  |-> n ]

SpineOf(order) == [i \in 1..Len(order) |-> SpineRecord(order[i], i - 1)]

\* the spine lists a prefix of the parts, in order
SpineOrders == { <<>>, <<PartA>>, <<PartA, PartB>>, <<PartA, PartB, PartC>> }

Spines == { SpineOf(o) : o \in SpineOrders }

\* a TOC item heading k entries: itself and k-1 nested ones
Items(k) ==
    { [title |-> e[1], path |-> e[2], contents |-> c] :
        e \in TopEntries,
        c \in [1..(k - 1) -> [title : {NestedTitle}, path : NestedPaths]] }

RECURSIVE TocsOf(_)
\* the TOCs that flatten to exactly n entries
TocsOf(n) ==
    IF n = 0 THEN { <<>> }
    ELSE UNION { { <<it>> \o rest : it \in Items(k), rest \in TocsOf(n - k) }
                 : k \in 1..n }

\* the TOCs that flatten to at most max entries
Tocs(max) == UNION { TocsOf(n) : n \in 0..max }

----------------------------------------------------------------------------
(* parse_part_path *)

HexChars == {"A", "B", "C", "D", "E", "F", "-",
             "0", "1", "2", "3", "4", "5", "6", "7", "8", "9"}

Digits == {"0", "1", "2", "3", "4", "5", "6", "7", "8", "9"}

DigitVal(c) ==
    CASE c = "0" -> 0 [] c = "1" -> 1 [] c = "2" -> 2 [] c = "3" -> 3
      [] c = "4" -> 4 [] c = "5" -> 5 [] c = "6" -> 6 [] c = "7" -> 7
      [] c = "8" -> 8 [] c = "9" -> 9

\* position of the first c in s, 0 when there is none
FirstIndex(s, c) ==
    IF \E i \in 1..Len(s) : s[i] = c
    THEN CHOOSE i \in 1..Len(s) : s[i] = c /\ \A k \in 1..(i - 1) : s[k] # c
    ELSE 0

\* "$" also matches before one trailing newline
StripNewline(s) ==
    IF Len(s) > 0 /\ s[Len(s)] = "\n" THEN SubSeq(s, 1, Len(s) - 1) ELSE s

AllDigits(s) == Len(s) > 0 /\ \A i \in 1..Len(s) : s[i] \in Digits

\* \d+(\.\d+)?
IsSecondStamp(s) ==
    LET d == FirstIndex(s, ".")
    IN  IF d = 0 THEN AllDigits(s)
        ELSE AllDigits(SubSeq(s, 1, d - 1)) /\ AllDigits(SubSeq(s, d + 1, Len(s)))

\* the text after the brace token: [^#]+(#(\d+(\.\d+)?))?$
TailMatches(rest) ==
    LET h == FirstIndex(rest, "#")
    IN  IF h = 0 THEN Len(rest) > 0
        ELSE h > 1 /\ IsSecondStamp(StripNewline(SubSeq(rest, h + 1, Len(rest))))

\* mutant: the brace token is [^}]+ instead of [A-F0-9\-]{36}
PathMatchesAnyToken(path) ==
    LET c == FirstIndex(path, "}")
    IN  /\ Len(path) >= 3
        /\ path[1] = "{"
        /\ c > 2
        /\ TailMatches(SubSeq(path, c + 1, Len(path)))

\* FILE_PART_RE.match(part_path) is not None
PathMatches(path) ==
    /\ Len(path) >= UuidLen + 2
    /\ path[1] = "{"
    /\ \A i \in 2..(UuidLen + 1) : path[i] \in HexChars
    /\ path[UuidLen + 2] = "}"
    /\ TailMatches(SubSeq(path, UuidLen + 3, Len(path)))

\* mobj.group("part_name")
PartNameGroup(path) ==
    LET h == FirstIndex(path, "#")
    IN  IF h = 0 THEN path ELSE SubSeq(path, 1, h - 1)

\* mobj.group("second_stamp"), <<>> when the group did not take part
SecondStampGroup(path) ==
    LET h == FirstIndex(path, "#")
    IN  IF h = 0 THEN <<>> ELSE StripNewline(SubSeq(path, h + 1, Len(path)))

RECURSIVE DecValue(_)
\* value of a digit string
DecValue(s) ==
    IF s = <<>> THEN 0
    ELSE 10 * DecValue(SubSeq(s, 1, Len(s) - 1)) + DigitVal(s[Len(s)])

\* mutant: int() instead of float(), the decimals are lost
FloatTenthsTruncated(s) ==
    LET d == FirstIndex(s, ".")
    IN  IF d = 0 THEN 10 * DecValue(s) ELSE 10 * DecValue(SubSeq(s, 1, d - 1))

\* float(second_stamp) in tenths of a second (stamps carry at most one decimal)
FloatTenths(s) ==
    LET d == FirstIndex(s, ".")
    IN  IF d = 0 THEN 10 * DecValue(s)
        ELSE 10 * DecValue(SubSeq(s, 1, d - 1)) + DigitVal(s[d + 1])

ChapterMarker(t, p, s, e) ==
    [title |-> t, part_name |-> p, start_second |-> s, end_second |-> e]

\* defined when PathMatches(part_path); otherwise the code raises ValueError
parse_part_path(title, part_path) ==
    ChapterMarker(title,
                  PartNameGroup(part_path),
                  IF SecondStampGroup(part_path) # <<>>
                  THEN FloatTenths(SecondStampGroup(part_path)) ELSE 0,
                  0)

----------------------------------------------------------------------------
(* parse_toc *)

\* the parse_part_path calls of the "for item in toc" loop all succeed
FlattenOK(t) ==
    \A i \in 1..Len(t) :
        /\ PathMatches(t[i].path)
        /\ \A k \in 1..Len(t[i].contents) : PathMatches(t[i].contents[k].path)

\* the paths handed to parse_part_path, in the order of the calls
RECURSIVE TocPaths(_)
TocPaths(t) ==
    IF t = <<>> THEN <<>>
    ELSE <<Head(t).path>>
         \o [k \in 1..Len(Head(t).contents) |-> Head(t).contents[k].path]
         \o TocPaths(Tail(t))

\* the path of the first parse_part_path call that raises
FirstBadPath(t) ==
    LET ps == TocPaths(t)
    IN  ps[CHOOSE n \in 1..Len(ps) :
               /\ ~PathMatches(ps[n])
               /\ \A k \in 1..(n - 1) : PathMatches(ps[k])]

RECURSIVE TocEntriesOwnTitle(_)
\* mutant: a nested entry is labelled with its own title
TocEntriesOwnTitle(t) ==
    IF t = <<>> THEN <<>>
    ELSE LET item == Head(t)
         IN  <<parse_part_path(item.title, item.path)>>
             \o [k \in 1..Len(item.contents) |->
                    parse_part_path(item.contents[k].title, item.contents[k].path)]
             \o TocEntriesOwnTitle(Tail(t))

RECURSIVE TocEntries(_)
\* entries after the "for item in toc" loop
TocEntries(t) ==
    IF t = <<>> THEN <<>>
    ELSE LET item == Head(t)
         IN  <<parse_part_path(item.title, item.path)>>
             \o [k \in 1..Len(item.contents) |->
                    parse_part_path(item.title, item.contents[k].path)]
             \o TocEntries(Tail(t))

\* position of key k in an ordered dict, 0 when absent
KeyIndex(d, k) ==
    IF \E i \in 1..Len(d) : d[i].key = k
    THEN CHOOSE i \in 1..Len(d) : d[i].key = k
    ELSE 0

NewPart(k) ==
    [ key |-> k, chapters |-> <<>>, url |-> <<>>, audio_duration |-> 0,
      file_length |-> 0, spine_position |-> 0 ]

\* mutant: the title check is lost, every entry is appended
KeepsEntryAlways(part, entry) == TRUE

\* mutant: the title is looked up in the whole list, not in its last chapter
KeepsEntryUnseenTitle(part, entry) ==
    \A j \in 1..Len(part.chapters) : part.chapters[j].title # entry.title

\* whether the "for entry in entries" body appends the entry to this part
KeepsEntry(part, entry) ==
    \/ part.chapters = <<>>
    \/ entry.title # part.chapters[Len(part.chapters)].title

\* mutant: a kept entry is inserted at the front of the part's list
GroupEntryPrepends(d, entry) ==
    LET d1 == IF KeyIndex(d, entry.part_name) = 0
              THEN Append(d, NewPart(entry.part_name)) ELSE d
        i  == KeyIndex(d1, entry.part_name)
    IN  IF KeepsEntry(d1[i], entry)
        THEN [d1 EXCEPT ![i].chapters = <<entry>> \o @]
        ELSE d1

\* one pass of the "for entry in entries" body
GroupEntry(d, entry) ==
    LET d1 == IF KeyIndex(d, entry.part_name) = 0
              THEN Append(d, NewPart(entry.part_name)) ELSE d
        i  == KeyIndex(d1, entry.part_name)
    IN  IF KeepsEntry(d1[i], entry)
        THEN [d1 EXCEPT ![i].chapters = Append(@, entry)]
        ELSE d1

RECURSIVE GroupEntries(_, _)
GroupEntries(d, es) ==
    IF es = <<>> THEN d ELSE GroupEntries(GroupEntry(d, Head(es)), Tail(es))

\* mutant: a spine record that names no part is skipped, nothing is raised
SpineOKSkipsUnknown(d, sp) == TRUE

\* no parsed_toc[s["-odread-original-path"]] lookup raises KeyError
SpineOK(d, sp) ==
    \A i \in 1..Len(sp) : KeyIndex(d, sp[i].odread_original_path) # 0

\* the key of the first parsed_toc[...] lookup that raises KeyError
FirstMissingKey(d, sp) ==
    sp[CHOOSE n \in 1..Len(sp) :
           /\ KeyIndex(d, sp[n].odread_original_path) = 0
           /\ \A k \in 1..(n - 1) : KeyIndex(d, sp[k].odread_original_path) # 0
      ].odread_original_path

\* urljoin(base_url, s["path"]) is kept as the pair it is computed from
UrlJoin(base, path) == <<base, path>>

\* one pass of the "for s in spine" body
JoinSpineRecord(d, s) ==
    [d EXCEPT ![KeyIndex(d, s.odread_original_path)] =
        [@ EXCEPT !.url = UrlJoin(BaseUrl, s.path),
                  !.audio_duration = s.audio_duration,
                  !.file_length = s.odread_file_bytes,
                  !.spine_position = s.odread_spine_position]]

RECURSIVE JoinSpine(_, _)
JoinSpine(d, sp) ==
    IF sp = <<>> THEN d ELSE JoinSpine(JoinSpineRecord(d, Head(sp)), Tail(sp))

\* mutant: every chapter ends at the part's audio-duration
UpdateEndsAllDuration(part) ==
    [part EXCEPT !.chapters =
        [i \in 1..Len(part.chapters) |->
            [part.chapters[i] EXCEPT !.end_second = part.audio_duration]]]

\* mutant: the bound of the look-ahead is one too small
UpdateEndsOffByOne(part) ==
    [part EXCEPT !.chapters =
        [i \in 1..Len(part.chapters) |->
            [part.chapters[i] EXCEPT !.end_second =
                IF i < Len(part.chapters) - 1
                THEN part.chapters[i + 1].start_second
                ELSE part.audio_duration]]]

\* mutant: a chapter ends where the chapter before it starts
UpdateEndsPreviousStart(part) ==
    [part EXCEPT !.chapters =
        [i \in 1..Len(part.chapters) |->
            [part.chapters[i] EXCEPT !.end_second =
                IF i > 1
                THEN part.chapters[i - 1].start_second
                ELSE part.audio_duration]]]

\* body of the "for chapter_mark in parsed_toc.values()" loop
UpdateEnds(part) ==
    [part EXCEPT !.chapters =
        [i \in 1..Len(part.chapters) |->
            [part.chapters[i] EXCEPT !.end_second =
                IF i < Len(part.chapters)
                THEN part.chapters[i + 1].start_second
                ELSE part.audio_duration]]]

\* the value parse_toc returns when it raises nothing
parse_toc(t, sp) ==
    LET grouped == GroupEntries(<<>>, TocEntries(t))
        joined  == JoinSpine(grouped, sp)
    IN  [i \in 1..Len(joined) |-> UpdateEnds(joined[i])]

----------------------------------------------------------------------------
(* merge_toc *)

RECURSIVE SumDurations(_)
\* sum([p["audio-duration"] for p in ps])
SumDurations(ps) ==
    IF ps = <<>> THEN 0
    ELSE SumDurations(SubSeq(ps, 1, Len(ps) - 1)) + ps[Len(ps)].audio_duration

RECURSIVE MarkerPositions(_)
\* the <<i, j>> (part, marker) pairs in the order the two loops visit them
MarkerPositions(parts) ==
    IF parts = <<>> THEN <<>>
    ELSE LET n == Len(parts)
         IN  MarkerPositions(SubSeq(parts, 1, n - 1))
             \o [j \in 1..Len(parts[n].chapters) |-> <<n, j>>]

TitleIndex(chs, t) ==
    IF \E i \in 1..Len(chs) : chs[i].title = t
    THEN CHOOSE i \in 1..Len(chs) : chs[i].title = t
    ELSE 0

\* mutant: parts[:i + 1], the part's own duration is counted too
CumuPartDurationInclusive(parts, i) == SumDurations(SubSeq(parts, 1, i))

\* cumu_part_duration while part i (1-based) is being visited
CumuPartDuration(parts, i) == SumDurations(SubSeq(parts, 1, i - 1))

\* mutant: the end is assigned inside the "if", only when the title is new
MergeMarkerEndOnInsert(chs, cumu_part_duration, marker) ==
    IF TitleIndex(chs, marker.title) = 0
    THEN Append(chs, [ title |-> marker.title,
                       start |-> cumu_part_duration + marker.start_second,
                       end   |-> cumu_part_duration + marker.end_second ])
    ELSE chs

\* mutant: the start of a new entry is not shifted
MergeMarkerStartNotShifted(chs, cumu_part_duration, marker) ==
    LET c1 == IF TitleIndex(chs, marker.title) = 0
              THEN Append(chs, [ title |-> marker.title,
                                 start |-> marker.start_second,
                                 end   |-> 0 ])
              ELSE chs
    IN  [c1 EXCEPT ![TitleIndex(c1, marker.title)].end =
                        cumu_part_duration + marker.end_second]

\* mutant: the title lookup is lost, every marker gets an entry of its own
MergeMarkerAlwaysAppends(chs, cumu_part_duration, marker) ==
    Append(chs, [ title |-> marker.title,
                  start |-> cumu_part_duration + marker.start_second,
                  end   |-> cumu_part_duration + marker.end_second ])

\* body of "for marker in part['chapters']"
MergeMarker(chs, cumu_part_duration, marker) ==
    LET c1 == IF TitleIndex(chs, marker.title) = 0
              THEN Append(chs, [ title |-> marker.title,
                                 start |-> cumu_part_duration + marker.start_second,
                                 end   |-> 0 ])
              ELSE chs
    IN  [c1 EXCEPT ![TitleIndex(c1, marker.title)].end =
                        cumu_part_duration + marker.end_second]

\* the list comprehension merge_toc returns
MergedList(chs) ==
    [i \in 1..Len(chs) |-> ChapterMarker(chs[i].title, <<>>, chs[i].start, chs[i].end)]

----------------------------------------------------------------------------
(* Behaviour: parse_toc(base_url, toc, spine), then merge_toc(parsed_toc) *)

\* nothing has run yet
IdleToc ==
    /\ parsed_toc = <<>>
    /\ chapters = <<>>
    /\ mk = 0
    /\ merged = <<>>
    /\ first_merged = <<>>

IdleCall ==
    /\ call_title = ""
    /\ call_path = <<>>
    /\ call_result = <<>>

IdleTs ==
    /\ marker_timestamp = <<>>
    /\ timestamp = <<>>
    /\ ts_mark = 0

IdleOdm ==
    /\ od_parts = <<>>
    /\ od_i = 0
    /\ track_count = 0
    /\ file_tracks = <<>>
    /\ audio_lengths_ms = <<>>
    /\ keep_cover = FALSE
    /\ od_log = <<>>
    /\ add_chapters = FALSE
    /\ merge_output = FALSE
    /\ part_chapters = <<>>
    /\ merged_markers = <<>>

\* no run has started: nothing is on disk but the odm file
IdleDl ==
    /\ dl_mode = "odm"
    /\ dl_args = [merge_output |-> FALSE, keep_mp3 |-> FALSE,
                  cleanup_odm_license |-> FALSE]
    /\ dl_runs = 0
    /\ dl_i = 0
    /\ dl_exit = 0
    /\ fs_odm = TRUE
    /\ fs_license = "none"
    /\ fs_parts = <<>>
    /\ fs_merged = FALSE
    /\ license_requests = 0
    /\ part_requests = {}

IdleClient ==
    /\ identity = <<>>
    /\ identity_token = "None"
    /\ identity_settings_file = FALSE
    /\ settings_file = <<>>

IdleLoan ==
    /\ loan = [formats |-> <<>>]
    /\ prefer_open_format = TRUE
    /\ loan_format = ""

Init ==
    /\ toc \in Tocs(MaxEntries)
    /\ spine \in Spines
    /\ pc = "start"
    /\ err = "none"
    /\ err_detail = <<>>
    /\ IdleToc
    /\ IdleCall
    /\ IdleTs
    /\ IdleOdm
    /\ IdleDl
    /\ IdleClient
    /\ IdleLoan

\* parse_part_path raises ValueError inside the flattening loop
ParseTocValueError ==
    /\ pc = "start"
    /\ ~FlattenOK(toc)
    /\ pc' = "raised"
    /\ err' = "ValueError"
    /\ err_detail' = <<"Unexpected path format: ", FirstBadPath(toc)>>
    /\ UNCHANGED <<dlVars, clientVars, loanVars,
                   tocVars, callVars, tsVars, odmVars>>

\* a spine record names a part no TOC entry created: KeyError
ParseTocKeyError ==
    /\ pc = "start"
    /\ FlattenOK(toc)
    /\ ~SpineOK(GroupEntries(<<>>, TocEntries(toc)), spine)
    /\ pc' = "raised"
    /\ err' = "KeyError"
    /\ err_detail' = FirstMissingKey(GroupEntries(<<>>, TocEntries(toc)), spine)
    /\ UNCHANGED <<dlVars, clientVars, loanVars,
                   tocVars, callVars, tsVars, odmVars>>

ParseTocReturn ==
    /\ pc = "start"
    /\ FlattenOK(toc)
    /\ SpineOK(GroupEntries(<<>>, TocEntries(toc)), spine)
    /\ parsed_toc' = parse_toc(toc, spine)
    /\ pc' = "parsed"
    /\ UNCHANGED <<dlVars, clientVars, loanVars,
                   toc, spine, err, err_detail, chapters, mk, merged,
                   first_merged, callVars, tsVars, odmVars>>

\* merge_toc: one pass of the inner loop, on the (mk+1)-th marker
MergeTocMarker ==
    /\ pc = "parsed"
    /\ mk < Len(MarkerPositions(parsed_toc))
    /\ LET pos    == MarkerPositions(parsed_toc)[mk + 1]
           marker == parsed_toc[pos[1]].chapters[pos[2]]
       IN  chapters' = MergeMarker(chapters,
                                   CumuPartDuration(parsed_toc, pos[1]), marker)
    /\ mk' = mk + 1
    /\ UNCHANGED <<dlVars, clientVars, loanVars,
                   toc, spine, pc, err, err_detail, parsed_toc, merged,
                   first_merged, callVars, tsVars, odmVars>>

\* mutant: the cumulative durations are written back into the parts
MergeTocReturnWritesDurations ==
    /\ pc = "parsed"
    /\ mk = Len(MarkerPositions(parsed_toc))
    /\ merged' = MergedList(chapters)
    /\ parsed_toc' =
           [i \in 1..Len(parsed_toc) |->
               [parsed_toc[i] EXCEPT !.audio_duration =
                   SumDurations(SubSeq(parsed_toc, 1, i))]]
    /\ pc' = "merged"
    /\ UNCHANGED <<dlVars, clientVars, loanVars,
                   toc, spine, err, err_detail, chapters, mk,
                   first_merged, callVars, tsVars, odmVars>>

\* merge_toc: both loops are done, the list is built and returned
MergeTocReturn ==
    /\ pc = "parsed"
    /\ mk = Len(MarkerPositions(parsed_toc))
    /\ merged' = MergedList(chapters)
    /\ pc' = "merged"
    /\ UNCHANGED <<dlVars, clientVars, loanVars,
                   toc, spine, err, err_detail, parsed_toc, chapters, mk,
                   first_merged, callVars, tsVars, odmVars>>

Next ==
    \/ ParseTocValueError
    \/ ParseTocKeyError
    \/ ParseTocReturn
    \/ MergeTocMarker
    \/ MergeTocReturn

\* merge_toc(parsed_toc) is called a second time on the same parsed TOC; the
\* first call's result is kept in first_merged
MergeTocAgain ==
    /\ pc = "merged"
    /\ first_merged = <<>>
    /\ first_merged' = <<merged>>
    /\ chapters' = <<>>
    /\ mk' = 0
    /\ merged' = <<>>
    /\ pc' = "parsed"
    /\ UNCHANGED <<dlVars, clientVars, loanVars,
                   toc, spine, err, err_detail, parsed_toc, callVars, tsVars,
                   odmVars>>

\* parse_toc(base_url, toc, spine) alone
NextParse ==
    \/ ParseTocValueError
    \/ ParseTocKeyError
    \/ ParseTocReturn

SpecParse == Init /\ [][NextParse]_vars

NextTwice ==
    \/ ParseTocValueError
    \/ ParseTocKeyError
    \/ ParseTocReturn
    \/ MergeTocMarker
    \/ MergeTocReturn
    \/ MergeTocAgain

SpecTwice == Init /\ [][NextTwice]_vars

Spec == Init /\ [][Next]_vars

----------------------------------------------------------------------------
(* Behaviour: parse_part_path(title, part_path), called directly or by
   parse_toc for a top-level or a nested TOC entry *)

DigitChar(d) ==
    CASE d = 0 -> "0" [] d = 1 -> "1" [] d = 2 -> "2" [] d = 3 -> "3"
      [] d = 4 -> "4" [] d = 5 -> "5" [] d = 6 -> "6" [] d = 7 -> "7"
      [] d = 8 -> "8" [] d = 9 -> "9"

RECURSIVE ToDigits(_)
\* decimal numeral of a natural number
ToDigits(n) ==
    IF n < 10 THEN <<DigitChar(n)>>
    ELSE ToDigits(n \div 10) \o <<DigitChar(n % 10)>>

\* brace tokens the pattern accepts
GoodTokens ==
    { Uuid("A"),
      [i \in 1..UuidLen |-> IF i % 5 = 0 THEN "-" ELSE IF i % 2 = 0 THEN "9" ELSE "F"] }

\* brace tokens it rejects: too short, too long, a character out of range
BadTokens ==
    { [i \in 1..(UuidLen - 1) |-> "A"],
      [i \in 1..(UuidLen + 1) |-> "A"],
      [i \in 1..UuidLen |-> IF i = 7 THEN "g" ELSE "A"] }

GoodSuffixes ==
    { <<"p", "1">>, <<"F", "m", "t", ".", "m", "p", "3">>, <<"p", "1", "\n">> }

\* "{token}suffix"
NameText(token, suffix) == <<"{">> \o token \o <<"}">> \o suffix

GoodNames == { NameText(t, x) : t \in GoodTokens, x \in GoodSuffixes }

BadNames ==
    { NameText(t, x) : t \in BadTokens, x \in GoodSuffixes }
    \cup { NameText(t, <<>>) : t \in GoodTokens }
    \cup { Uuid("A") \o <<"}", "p", "1">>,
           <<"{">> \o Uuid("A") \o <<"p", "1">>,
           <<"x">> \o NameText(Uuid("A"), <<"p", "1">>) }

\* a fragment "#n", "#n.d" (frac = -1: no decimals), with a final newline or not
NumFrags == [n : {0, 5, 12, 3000}, frac : {-1, 0, 5}, nl : BOOLEAN]

FragText(f) ==
    <<"#">> \o ToDigits(f.n)
    \o (IF f.frac < 0 THEN <<>> ELSE <<".", DigitChar(f.frac)>>)
    \o (IF f.nl THEN <<"\n">> ELSE <<>>)

\* the number a fragment denotes, in tenths of a second
FragValue(f) == 10 * f.n + (IF f.frac < 0 THEN 0 ELSE f.frac)

GoodFragTexts == { <<>> } \cup { FragText(f) : f \in NumFrags }

BadFragTexts ==
    { <<"#">>, <<"#", "x">>, <<"#", "5", ".">>, <<"#", ".", "5">>,
      <<"#", "5", "#", "6">>, <<"#", "1", ".", "5", ".", "2">>,
      <<"#", "-", "5">>, <<"#", "5", "s">> }

CallPaths ==
    { n \o f : n \in GoodNames \cup BadNames, f \in GoodFragTexts }
    \cup { n \o f : n \in GoodNames, f \in BadFragTexts }

\* the TOC that hands path p to parse_part_path for a top-level entry
TopToc(t, p) == << [title |-> t, path |-> p, contents |-> <<>>] >>

\* ... and for a nested entry
NestedToc(t, p) ==
    << [title |-> t, path |-> PartA,
        contents |-> << [title |-> NestedTitle, path |-> p] >>] >>

InitPath ==
    /\ err = "none"
    /\ err_detail = <<>>
    /\ spine = <<>>
    /\ IdleToc
    /\ IdleTs
    /\ IdleOdm
    /\ IdleDl
    /\ IdleClient
    /\ IdleLoan
    /\ call_result = <<>>
    /\ \E t \in Titles, p \in CallPaths :
          \/ pc = "call" /\ call_title = t /\ call_path = p /\ toc = <<>>
          \/ /\ pc = "start"
             /\ call_title = ""
             /\ call_path = <<>>
             /\ toc \in { TopToc(t, p), NestedToc(t, p) }

ParsePartPathRaise ==
    /\ pc = "call"
    /\ ~PathMatches(call_path)
    /\ pc' = "raised"
    /\ err' = "ValueError"
    /\ err_detail' = <<"Unexpected path format: ", call_path>>
    /\ UNCHANGED <<dlVars, clientVars, loanVars,
                   tocVars, callVars, tsVars, odmVars>>

ParsePartPathReturn ==
    /\ pc = "call"
    /\ PathMatches(call_path)
    /\ call_result' = parse_part_path(call_title, call_path)
    /\ pc' = "returned"
    /\ UNCHANGED <<dlVars, clientVars, loanVars,
                   err, err_detail, call_title, call_path, tocVars, tsVars,
                   odmVars>>

NextPath ==
    \/ ParsePartPathRaise
    \/ ParsePartPathReturn
    \/ ParseTocValueError
    \/ ParseTocReturn

SpecPath == InitPath /\ [][NextPath]_vars

----------------------------------------------------------------------------
(* process_odm: the timestamp of one embedded marker.  Times are integer
   milliseconds here. *)

RECURSIVE DigitRun(_, _)
\* length of the run of digits of s that starts at position i
DigitRun(s, i) ==
    IF i < 1 \/ i > Len(s) THEN 0
    ELSE IF s[i] \notin Digits THEN 0
    ELSE 1 + DigitRun(s, i + 1)

CharAt(s, i, c) == i >= 1 /\ i <= Len(s) /\ s[i] = c

\* digits ":" digits "." digits at the start of s: the fields and where they end
SplitMMSS(s) ==
    LET a == DigitRun(s, 1)
        b == DigitRun(s, a + 2)
        c == DigitRun(s, a + b + 3)
    IN  [ok   |-> /\ a >= 1 /\ CharAt(s, a + 1, ":")
                  /\ b >= 1 /\ CharAt(s, a + b + 2, ".")
                  /\ c >= 1,
         min  |-> SubSeq(s, 1, a),
         sec  |-> SubSeq(s, a + 2, a + b + 1),
         ms   |-> SubSeq(s, a + b + 3, a + b + c + 2),
         stop |-> a + b + c + 2]

\* digits ":" digits ":" digits "." digits at the start of s
SplitHHMMSS(s) ==
    LET h == DigitRun(s, 1)
        a == DigitRun(s, h + 2)
        b == DigitRun(s, h + a + 3)
        c == DigitRun(s, h + a + b + 4)
    IN  [ok   |-> /\ h >= 1 /\ CharAt(s, h + 1, ":")
                  /\ a >= 1 /\ CharAt(s, h + a + 2, ":")
                  /\ b >= 1 /\ CharAt(s, h + a + b + 3, ".")
                  /\ c >= 1,
         hr   |-> SubSeq(s, 1, h),
         min  |-> SubSeq(s, h + 2, h + a + 1),
         sec  |-> SubSeq(s, h + a + 3, h + a + b + 2),
         ms   |-> SubSeq(s, h + a + b + 4, h + a + b + c + 3),
         stop |-> h + a + b + c + 3]

\* strptime's %H: 2[0-3]|[0-1]\d|\d
DirectiveH(x) ==
    \/ Len(x) = 1
    \/ Len(x) = 2 /\ (x[1] \in {"0", "1"} \/ (x[1] = "2" /\ x[2] \in {"0", "1", "2", "3"}))

\* strptime's %M: [0-5]\d|\d
DirectiveM(x) ==
    \/ Len(x) = 1
    \/ Len(x) = 2 /\ x[1] \in {"0", "1", "2", "3", "4", "5"}

\* strptime's %S: 6[0-1]|[0-5]\d|\d
DirectiveS(x) ==
    \/ Len(x) = 1
    \/ Len(x) = 2 /\ (x[1] \in {"0", "1", "2", "3", "4", "5"} \/ (x[1] = "6" /\ x[2] \in {"0", "1"}))

\* strptime's %f: [0-9]{1,6}
DirectiveF(x) == Len(x) >= 1 /\ Len(x) <= 6

\* time.strptime(s, "%M:%S.%f"): <<tm_hour, tm_min, tm_sec>>, <<>> for ValueError.
\* A struct_time has no field for the fraction.
StrptimeMS(s) ==
    LET f == SplitMMSS(s)
    IN  IF /\ f.ok
           /\ DirectiveM(f.min) /\ DirectiveS(f.sec) /\ DirectiveF(f.ms)
           /\ f.stop = Len(s)
        THEN <<0, DecValue(f.min), DecValue(f.sec)>>
        ELSE <<>>

\* time.strptime(s, "%H:%M:%S.%f")
StrptimeHMS(s) ==
    LET f == SplitHHMMSS(s)
    IN  IF /\ f.ok
           /\ DirectiveH(f.hr) /\ DirectiveM(f.min) /\ DirectiveS(f.sec)
           /\ DirectiveF(f.ms)
           /\ f.stop = Len(s)
        THEN <<DecValue(f.hr), DecValue(f.min), DecValue(f.sec)>>
        ELSE <<>>

\* the loop over ("%M:%S.%f", "%H:%M:%S.%f"): the first format that parses
StrictTimestamp(s) ==
    IF StrptimeMS(s) # <<>> THEN StrptimeMS(s) ELSE StrptimeHMS(s)

\* int(1000 * timedelta(hours, minutes, seconds).total_seconds())
StrictMark(t) == 1000 * (t[1] * 3600 + t[2] * 60 + t[3])

\* re.match(MARKER_TIMESTAMP_HHMMSS, s)
MARKER_TIMESTAMP_HHMMSS(s) == SplitHHMMSS(s).ok

\* re.match(MARKER_TIMESTAMP_MMSS, s)
MARKER_TIMESTAMP_MMSS(s) == SplitMMSS(s).ok

\* one of the two permissive patterns matches
PermissiveMatches(s) ==
    MARKER_TIMESTAMP_HHMMSS(s) \/ MARKER_TIMESTAMP_MMSS(s)

\* mutant: the minutes count as seconds
PermissiveMarkMinutesAsSeconds(s) ==
    IF MARKER_TIMESTAMP_HHMMSS(s)
    THEN LET f == SplitHHMMSS(s)
         IN  DecValue(f.hr) * 60 * 60 * 1000 + DecValue(f.min) * 1000
             + DecValue(f.sec) * 1000 + DecValue(f.ms)
    ELSE LET f == SplitMMSS(s)
         IN  DecValue(f.min) * 1000 + DecValue(f.sec) * 1000 + DecValue(f.ms)

\* the fallback's ts_mark: HH:MM:SS.mmm tried first, then MM:SS.mmm
PermissiveMark(s) ==
    IF MARKER_TIMESTAMP_HHMMSS(s)
    THEN LET f == SplitHHMMSS(s)
         IN  DecValue(f.hr) * 60 * 60 * 1000 + DecValue(f.min) * 60 * 1000
             + DecValue(f.sec) * 1000 + DecValue(f.ms)
    ELSE LET f == SplitMMSS(s)
         IN  DecValue(f.min) * 60 * 1000 + DecValue(f.sec) * 1000 + DecValue(f.ms)

\* a marker timestamp parses, strictly or permissively
TimestampParses(s) == StrictTimestamp(s) # <<>> \/ PermissiveMatches(s)

\* the ts_mark of a timestamp that parses
MarkOf(s) ==
    IF StrictTimestamp(s) # <<>> THEN StrictMark(StrictTimestamp(s))
    ELSE PermissiveMark(s)

\* n written with at least two digits
Pad2(n) == IF n < 10 THEN <<"0">> \o ToDigits(n) ELSE ToDigits(n)

\* n written with at least three digits
Pad3(n) == IF n < 100 THEN <<"0">> \o Pad2(n) ELSE ToDigits(n)

\* "HH:MM:SS.mmm"
FormatHHMMSS(f) ==
    Pad2(f.h) \o <<":">> \o Pad2(f.m) \o <<":">> \o Pad2(f.s) \o <<".">> \o Pad3(f.ms)

\* "MM:SS.mmm"
FormatMMSS(f) == Pad2(f.m) \o <<":">> \o Pad2(f.s) \o <<".">> \o Pad3(f.ms)

\* hours*3600000 + minutes*60000 + seconds*1000 + milliseconds
LinearSum(h, m, s, ms) == h * 3600000 + m * 60000 + s * 1000 + ms

TsFields == [h : {0, 1, 23, 24, 100}, m : {0, 5, 59, 60}, s : {0, 7, 59, 60, 61, 62},
             ms : {0, 1, 500}]

\* "60:15.00" and texts that are no timestamp, or one with something around it
RawTimestamps ==
    { <<"6", "0", ":", "1", "5", ".", "0", "0">>,
      <<>>,
      <<"a", "b", "c">>,
      <<"1", ":", "2">>,
      <<"1", "2", ".", "5">>,
      <<"0", "1", ":", "0", "2">>,
      <<"0", "1", ":", "0", "2", ".">>,
      <<":", "0", "1", ".", "5">>,
      <<"x", "0", "1", ":", "0", "2", ".", "5", "0", "0">>,
      <<"0", "1", ":", "0", "2", ".", "5", "0", "0", "\n">>,
      <<"1", ":", "2", ":", "3", ".", "4", "x">>,
      <<"0", "1", ":", "0", "2", ".", "1", "2", "3", "4", "5", "6", "7">>,
      <<"5", ":", "7", ".", "2", "5">> }

MarkerTimestamps ==
    { FormatHHMMSS(f) : f \in TsFields } \cup { FormatMMSS(f) : f \in TsFields }
    \cup RawTimestamps

InitTs ==
    /\ pc = "marker"
    /\ err = "none"
    /\ err_detail = <<>>
    /\ toc = <<>>
    /\ spine = <<>>
    /\ IdleToc
    /\ IdleCall
    /\ IdleOdm
    /\ IdleDl
    /\ IdleClient
    /\ IdleLoan
    /\ marker_timestamp \in MarkerTimestamps
    /\ timestamp = <<>>
    /\ ts_mark = 0

\* one of the strptime formats parses the timestamp
MarkerStrictParse ==
    /\ pc = "marker"
    /\ StrictTimestamp(marker_timestamp) # <<>>
    /\ timestamp' = StrictTimestamp(marker_timestamp)
    /\ ts_mark' = StrictMark(StrictTimestamp(marker_timestamp))
    /\ pc' = "marked"
    /\ UNCHANGED <<dlVars, clientVars, loanVars,
                   err, err_detail, marker_timestamp, tocVars, callVars, odmVars>>

\* both strptime calls raise ValueError, one of the patterns matches
MarkerPermissiveParse ==
    /\ pc = "marker"
    /\ StrictTimestamp(marker_timestamp) = <<>>
    /\ PermissiveMatches(marker_timestamp)
    /\ ts_mark' = PermissiveMark(marker_timestamp)
    /\ pc' = "marked"
    /\ UNCHANGED <<dlVars, clientVars, loanVars,
                   err, err_detail, marker_timestamp, timestamp, tocVars,
                   callVars, odmVars>>

\* nothing matches: the raise statement, which hands control to the handler
\* of the enclosing try
MarkerInvalid ==
    /\ pc = "marker"
    /\ StrictTimestamp(marker_timestamp) = <<>>
    /\ ~PermissiveMatches(marker_timestamp)
    /\ pc' = "except"
    /\ err' = "ValueError"
    /\ err_detail' = <<"Invalid marker timestamp: ", marker_timestamp>>
    /\ UNCHANGED <<dlVars, clientVars, loanVars,
                   tsVars, tocVars, callVars, odmVars>>

NextTs ==
    \/ MarkerStrictParse
    \/ MarkerPermissiveParse
    \/ MarkerInvalid

SpecTs == InitTs /\ [][NextTs]_vars

----------------------------------------------------------------------------
(* process_odm: the loop over the downloaded parts, from the loading of a
   part's tags to the appending of its entry to file_tracks, and the chapter
   marks of the merged file *)

\* the timestamps of the parts' markers: strict, strict with milliseconds,
\* permissive, and one that is no timestamp
OdmTimestamps ==
    { <<"0", "0", ":", "0", "0", ".", "0", "0", "0">>,
      <<"0", "5", ":", "0", "7", ".", "5", "0", "0">>,
      <<"6", "0", ":", "1", "5", ".", "0", "0">>,
      <<"a", "b", "c">> }

\* the Marker elements of a part's "OverDrive MediaMarkers" frame
OdmMarkerLists ==
    { <<>> }
    \cup { <<a>> : a \in OdmTimestamps }
    \cup { <<a, b>> : a \in OdmTimestamps, b \in OdmTimestamps }

\* mp3_duration_ms(part_filename)
OdmDuration(file) == IF file = "p1" THEN 400000 ELSE 3700000

\* int(round(audiofile.info.time_secs * 1000))
OdmTimeSecsMs(file) == IF file = "p1" THEN 400026 ELSE 3700013

\* Name of the k-th Marker element when the names differ
MarkerName(k) == IF k = 1 THEN "Intro" ELSE "Ch1"

\* the Name texts of a part's markers: different names, or twice the same
OdmNames(times) ==
    { [k \in 1..Len(times) |-> MarkerName(k)] }
    \cup (IF Len(times) > 1 THEN { [k \in 1..Len(times) |-> "Ch1"] } ELSE {})

\* a downloaded part: tag_error says that loading or tagging the file raises
OdmPart(file, te, times, names) ==
    [file |-> file, duration |-> OdmDuration(file),
     time_ms |-> OdmTimeSecsMs(file), tag_error |-> te, times |-> times,
     names |-> names]

OdmPartsOf(file) ==
    UNION { { OdmPart(file, te, t, n) : te \in BOOLEAN, n \in OdmNames(t) }
            : t \in OdmMarkerLists }

OdmInputs ==
    { <<a>> : a \in OdmPartsOf("p1") }
    \cup { <<a, b>> : a \in OdmPartsOf("p1"), b \in OdmPartsOf("p2") }

\* position of the first timestamp that does not parse, 0 when all do
FirstInvalid(times) ==
    IF \E k \in 1..Len(times) : ~TimestampParses(times[k])
    THEN CHOOSE k \in 1..Len(times) :
             /\ ~TimestampParses(times[k])
             /\ \A j \in 1..(k - 1) : TimestampParses(times[j])
    ELSE 0

\* part_markers after n markers were appended, with tc tracks counted before
PartMarkers(p, tc, n) ==
    [k \in 1..n |-> [id |-> tc + k, name |-> p.names[k], ts_mark |-> MarkOf(p.times[k])]]

\* mutant: a marker that repeats the name of the marker before it is left out
GeneratedMarkersDeduplicated(markers, time_ms) ==
    LET kept == SelectSeq([j \in 1..Len(markers) |-> j],
                          LAMBDA j : j = 1 \/ markers[j].name # markers[j - 1].name)
    IN  [n \in 1..Len(kept) |->
            [id         |-> markers[kept[n]].id,
             text       |-> markers[kept[n]].name,
             start_time |-> markers[kept[n]].ts_mark,
             end_time   |-> IF n = Len(kept) THEN time_ms
                            ELSE markers[kept[n + 1]].ts_mark]]

\* generated_markers of a part: the chapter marks written to the part's tags
GeneratedMarkers(markers, time_ms) ==
    [j \in 1..Len(markers) |->
        [id         |-> markers[j].id,
         text       |-> markers[j].name,
         start_time |-> markers[j].ts_mark,
         end_time   |-> IF j = Len(markers) THEN time_ms
                        ELSE markers[j + 1].ts_mark]]

RECURSIVE SumMs(_)
\* reduce(lambda x, y: x + y, s) of a non-empty list
SumMs(s) == IF s = <<>> THEN 0 ELSE SumMs(SubSeq(s, 1, Len(s) - 1)) + s[Len(s)]

\* s[0:n]
PySlice(s, n) == SubSeq(s, 1, IF n < Len(s) THEN n ELSE Len(s))

\* the merged markers of the i-th entry of file_tracks (i counts from 1)
TrackMergedMarkers(f, lengths, i) ==
    LET prev_tracks_len_ms    == IF i = 1 THEN 0 ELSE SumMs(PySlice(lengths, i - 1))
        this_track_endtime_ms == SumMs(PySlice(lengths, i))
    IN  [j \in 1..Len(f.markers) |->
            [id         |-> f.markers[j].id,
             text       |-> f.markers[j].name,
             start_time |-> f.markers[j].ts_mark + prev_tracks_len_ms,
             end_time   |-> IF j = Len(f.markers) THEN this_track_endtime_ms
                            ELSE f.markers[j + 1].ts_mark + prev_tracks_len_ms]]

RECURSIVE MergedMarkers(_, _, _)
\* merged_markers after the first n entries of file_tracks
MergedMarkers(tracks, lengths, n) ==
    IF n = 0 THEN <<>>
    ELSE MergedMarkers(tracks, lengths, n - 1)
         \o TrackMergedMarkers(tracks[n], lengths, n)

InitOdm ==
    /\ pc = "parts"
    /\ err = "none"
    /\ err_detail = <<>>
    /\ toc = <<>>
    /\ spine = <<>>
    /\ IdleToc
    /\ IdleCall
    /\ IdleTs
    /\ IdleDl
    /\ IdleClient
    /\ IdleLoan
    /\ od_parts \in OdmInputs
    /\ od_i = 0
    /\ track_count = 0
    /\ file_tracks = <<>>
    /\ audio_lengths_ms = <<>>
    /\ keep_cover = FALSE
    /\ od_log = <<>>
    /\ add_chapters \in BOOLEAN
    /\ merge_output \in BOOLEAN
    /\ part_chapters = <<>>
    /\ merged_markers = <<>>

\* one pass of the loop whose try block completes
OdmPartTagged ==
    /\ pc = "parts"
    /\ od_i < Len(od_parts)
    /\ LET p == od_parts[od_i + 1]
           part_markers == PartMarkers(p, track_count, Len(p.times))
       IN  /\ ~p.tag_error
           /\ FirstInvalid(p.times) = 0
           /\ audio_lengths_ms' = Append(audio_lengths_ms, p.duration)
           /\ track_count' = track_count + Len(p.times)
           /\ part_chapters' =
                  Append(part_chapters,
                         IF add_chapters /\ ~merge_output
                         THEN GeneratedMarkers(part_markers, p.time_ms)
                         ELSE <<>>)
           /\ file_tracks' =
                  Append(file_tracks, [file |-> p.file, markers |-> part_markers])
    /\ od_i' = od_i + 1
    /\ UNCHANGED <<dlVars, clientVars, loanVars,
                   pc, err, err_detail, od_parts, keep_cover, od_log,
                   add_chapters, merge_output, merged_markers, tocVars,
                   callVars, tsVars>>

\* one pass of the loop whose try block raises: the handler logs a warning,
\* sets keep_cover, and the pass goes on to append the part to file_tracks
OdmPartException ==
    /\ pc = "parts"
    /\ od_i < Len(od_parts)
    /\ LET p == od_parts[od_i + 1]
           n == FirstInvalid(p.times)
       IN  /\ p.tag_error \/ n > 0
           /\ IF p.tag_error
              THEN /\ UNCHANGED <<audio_lengths_ms, track_count>>
                   /\ file_tracks' =
                          Append(file_tracks, [file |-> p.file, markers |-> <<>>])
                   /\ od_log' = Append(od_log, <<"Error saving ID3: ", <<"tag error">>>>)
              ELSE /\ audio_lengths_ms' = Append(audio_lengths_ms, p.duration)
                   /\ track_count' = track_count + (n - 1)
                   /\ file_tracks' =
                          Append(file_tracks,
                                 [file |-> p.file,
                                  markers |-> PartMarkers(p, track_count, n - 1)])
                   /\ od_log' = Append(od_log,
                                       <<"Error saving ID3: ",
                                         <<"Invalid marker timestamp: ", p.times[n]>>>>)
    /\ part_chapters' = Append(part_chapters, <<>>)
    /\ keep_cover' = TRUE
    /\ od_i' = od_i + 1
    /\ UNCHANGED <<dlVars, clientVars, loanVars,
                   pc, err, err_detail, od_parts, add_chapters, merge_output,
                   merged_markers, tocVars, callVars, tsVars>>

\* end loop: for p in download_parts, with no chapter marks to merge
OdmLoopEnd ==
    /\ pc = "parts"
    /\ od_i = Len(od_parts)
    /\ ~(merge_output /\ add_chapters)
    /\ pc' = "finished"
    /\ UNCHANGED <<dlVars, clientVars, loanVars,
                   err, err_detail, tocVars, callVars, tsVars, odmVars>>

\* the loop is done and the merged file gets its chapter marks
OdmMergeMarkers ==
    /\ pc = "parts"
    /\ od_i = Len(od_parts)
    /\ merge_output /\ add_chapters
    /\ audio_lengths_ms # <<>>
    /\ merged_markers' = MergedMarkers(file_tracks, audio_lengths_ms, Len(file_tracks))
    /\ pc' = "finished"
    /\ UNCHANGED <<dlVars, clientVars, loanVars,
                   err, err_detail, od_parts, od_i, track_count, file_tracks,
                   audio_lengths_ms, keep_cover, od_log, add_chapters,
                   merge_output, part_chapters, tocVars, callVars, tsVars>>

\* the loop is done and no length was recorded: reduce() of an empty list
\* raises TypeError, which nothing in process_odm catches
OdmMergeTypeError ==
    /\ pc = "parts"
    /\ od_i = Len(od_parts)
    /\ merge_output /\ add_chapters
    /\ audio_lengths_ms = <<>>
    /\ pc' = "raised"
    /\ err' = "TypeError"
    /\ err_detail' = <<"reduce() of empty iterable with no initial value">>
    /\ UNCHANGED <<dlVars, clientVars, loanVars,
                   tocVars, callVars, tsVars, odmVars>>

NextOdm ==
    \/ OdmPartTagged
    \/ OdmPartException
    \/ OdmLoopEnd
    \/ OdmMergeMarkers
    \/ OdmMergeTypeError

SpecOdm == InitOdm /\ [][NextOdm]_vars

----------------------------------------------------------------------------
(* Runs of process_odm and process_audiobook_loan over one download folder: *)
(* license acquisition, the download-and-remux step of every part, and the *)
(* removal of files at the end of a run.  A file is modelled by whether it *)
(* exists; the license file also by whether its body was written in full.  *)
(* The tagging of the parts between two download steps touches no file     *)
(* name and is the subject of the part loop above.                         *)

\* largest number of runs over the same download folder
MaxRuns == 3

\* download_parts
DlParts == <<"p1", "p2">>

\* args.merge_output, args.keep_mp3 and the cleanup_odm_license parameter
\* (process_audiobook_loan has no such parameter)
DlArgs(mode) ==
    [ merge_output : BOOLEAN, keep_mp3 : BOOLEAN,
      cleanup_odm_license : IF mode = "odm" THEN BOOLEAN ELSE {FALSE} ]

\* neither part_filename nor part_tmp_filename exists; "final" tells what
\* part_filename holds: nothing, ffmpeg's output, or the renamed download
NoPartFile == [final |-> "none", tmp |-> FALSE]

\* os.path.isfile(part_filename)
IsFile(f) == f.final # "none"

InitDl ==
    /\ pc = "idle"
    /\ err = "none"
    /\ err_detail = <<>>
    /\ toc = <<>>
    /\ spine = <<>>
    /\ IdleToc
    /\ IdleCall
    /\ IdleTs
    /\ IdleOdm
    /\ IdleClient
    /\ IdleLoan
    /\ dl_mode \in {"odm", "loan"}
    /\ dl_args \in DlArgs(dl_mode)
    /\ dl_runs = 0
    /\ dl_i = 0
    /\ dl_exit = 0
    /\ fs_odm = (dl_mode = "odm")
    /\ fs_license = "none"
    /\ fs_parts = [i \in 1..Len(DlParts) |-> NoPartFile]
    /\ fs_merged = FALSE
    /\ license_requests = 0
    /\ part_requests = {}

\* a new run can start: the previous one is over and its input still exists
CanRun ==
    /\ pc \in {"idle", "exited"}
    /\ dl_runs < MaxRuns
    /\ dl_mode = "odm" => fs_odm

\* the run ends here with this exit code
Exit(code, why) ==
    /\ pc' = "exited"
    /\ dl_exit' = code
    /\ err' = why

\* "check early if a merged file is already saved": sys.exit()
RunAlreadyMerged ==
    /\ CanRun
    /\ fs_merged
    /\ \E a \in DlArgs(dl_mode) :
        /\ a.merge_output
        /\ dl_args' = a
        /\ fs_odm' = IF a.cleanup_odm_license THEN FALSE ELSE fs_odm
    /\ dl_runs' = dl_runs + 1
    /\ dl_i' = 0
    /\ part_requests' = {}
    /\ Exit(0, "none")
    /\ UNCHANGED <<clientVars, loanVars, err_detail, dl_mode, fs_license,
                   fs_parts, fs_merged, license_requests, tocVars, callVars,
                   tsVars, odmVars>>

\* a run gets past the early check
RunBegin ==
    /\ CanRun
    /\ \E a \in DlArgs(dl_mode) :
        /\ ~(a.merge_output /\ fs_merged)
        /\ dl_args' = a
    /\ dl_runs' = dl_runs + 1
    /\ dl_i' = 0
    /\ part_requests' = {}
    /\ pc' = IF dl_mode = "odm" THEN "license" ELSE "download"
    /\ err' = "none"
    /\ UNCHANGED <<clientVars, loanVars, err_detail, dl_mode, dl_exit, fs_odm,
                   fs_license, fs_parts, fs_merged, license_requests, tocVars,
                   callVars, tsVars, odmVars>>

\* "Already downloaded license file": no request; the file is then parsed,
\* and xml.etree raises ParseError, which nothing catches, on a body that
\* was not written in full
LicenseAlreadyDownloaded ==
    /\ pc = "license"
    /\ fs_license # "none"
    /\ IF fs_license = "complete"
       THEN /\ pc' = "download"
            /\ UNCHANGED <<err, dl_exit>>
       ELSE Exit(1, "ParseError")
    /\ UNCHANGED <<clientVars, loanVars, err_detail, dl_mode, dl_args, dl_runs,
                   dl_i, fs_odm, fs_license, fs_parts, fs_merged,
                   license_requests, part_requests, tocVars, callVars, tsVars,
                   odmVars>>

\* the request is answered and its body written to license_file
LicenseAcquired ==
    /\ pc = "license"
    /\ fs_license = "none"
    /\ license_requests' = license_requests + 1
    /\ fs_license' = "complete"
    /\ pc' = "download"
    /\ UNCHANGED <<clientVars, loanVars, err, err_detail, dl_mode, dl_args,
                   dl_runs, dl_i, dl_exit, fs_odm, fs_parts, fs_merged,
                   part_requests, tocVars, callVars, tsVars, odmVars>>

\* session.get raises (it is outside the try block) or raise_for_status
\* raises HTTPError: the run ends before license_file is opened
LicenseRequestFails ==
    /\ pc = "license"
    /\ fs_license = "none"
    /\ license_requests' = license_requests + 1
    /\ \E why \in {"HTTPError", "ConnectionError"} : Exit(1, why)
    /\ UNCHANGED <<clientVars, loanVars, err_detail, dl_mode, dl_args, dl_runs,
                   dl_i, fs_odm, fs_license, fs_parts, fs_merged,
                   part_requests, tocVars, callVars, tsVars, odmVars>>

\* iter_content raises ConnectionError after open(license_file, "wb"): the
\* handler exits and the file stays as far as it was written
LicenseBodyBreaks ==
    /\ pc = "license"
    /\ fs_license = "none"
    /\ license_requests' = license_requests + 1
    /\ fs_license' = "partial"
    /\ Exit(1, "ConnectionError")
    /\ UNCHANGED <<clientVars, loanVars, err_detail, dl_mode, dl_args, dl_runs,
                   dl_i, fs_odm, fs_parts, fs_merged, part_requests, tocVars,
                   callVars, tsVars, odmVars>>

\* the part the next download step is about (1-based)
ThisPart == dl_i + 1

\* the loop goes on with the next part, or is done
NextPartOrPost ==
    /\ dl_i' = dl_i + 1
    /\ pc' = IF dl_i + 1 = Len(DlParts) THEN "post" ELSE "download"

\* "Already saved": os.path.isfile(part_filename)
PartAlreadySaved ==
    /\ pc = "download"
    /\ IsFile(fs_parts[ThisPart])
    /\ NextPartOrPost
    /\ UNCHANGED <<clientVars, loanVars, err, err_detail, dl_mode, dl_args,
                   dl_runs, dl_exit, fs_odm, fs_license, fs_parts, fs_merged,
                   license_requests, part_requests, tocVars, callVars, tsVars,
                   odmVars>>

\* session.get raises ConnectionError or raise_for_status raises HTTPError:
\* sys.exit(1) before part_tmp_filename is opened
PartRequestFails ==
    /\ pc = "download"
    /\ ~IsFile(fs_parts[ThisPart])
    /\ part_requests' = part_requests \cup {ThisPart}
    /\ \E why \in {"HTTPError", "ConnectionError"} : Exit(1, why)
    /\ UNCHANGED <<clientVars, loanVars, err_detail, dl_mode, dl_args, dl_runs,
                   dl_i, fs_odm, fs_license, fs_parts, fs_merged,
                   license_requests, tocVars, callVars, tsVars, odmVars>>

\* the connection breaks inside shutil.copyfileobj, after part_tmp_filename
\* was opened: the run ends and the temporary file keeps what was written
PartBodyBreaks ==
    /\ pc = "download"
    /\ ~IsFile(fs_parts[ThisPart])
    /\ part_requests' = part_requests \cup {ThisPart}
    /\ fs_parts' = [fs_parts EXCEPT ![ThisPart].tmp = TRUE]
    /\ Exit(1, "ConnectionError")
    /\ UNCHANGED <<clientVars, loanVars, err_detail, dl_mode, dl_args, dl_runs,
                   dl_i, fs_odm, fs_license, fs_merged, license_requests,
                   tocVars, callVars, tsVars, odmVars>>

\* the body is written and ffmpeg exits with 0: part_filename is ffmpeg's
\* output and os.remove(part_tmp_filename)
PartRemuxed ==
    /\ pc = "download"
    /\ ~IsFile(fs_parts[ThisPart])
    /\ part_requests' = part_requests \cup {ThisPart}
    /\ fs_parts' = [fs_parts EXCEPT ![ThisPart] =
                                    [final |-> "remuxed", tmp |-> FALSE]]
    /\ NextPartOrPost
    /\ UNCHANGED <<clientVars, loanVars, err, err_detail, dl_mode, dl_args,
                   dl_runs, dl_exit, fs_odm, fs_license, fs_merged,
                   license_requests, tocVars, callVars, tsVars, odmVars>>

\* mutant: the temporary file is not renamed when ffmpeg fails
PartFfmpegFailsKeepsTmp ==
    /\ pc = "download"
    /\ ~IsFile(fs_parts[ThisPart])
    /\ part_requests' = part_requests \cup {ThisPart}
    /\ fs_parts' = [fs_parts EXCEPT ![ThisPart] = [final |-> "none", tmp |-> TRUE]]
    /\ NextPartOrPost
    /\ UNCHANGED <<clientVars, loanVars, err, err_detail, dl_mode, dl_args,
                   dl_runs, dl_exit, fs_odm, fs_license, fs_merged,
                   license_requests, tocVars, callVars, tsVars, odmVars>>

\* the body is written and ffmpeg exits with another code, or
\* subprocess.call raises: os.rename(part_tmp_filename, part_filename)
PartFfmpegFails ==
    /\ pc = "download"
    /\ ~IsFile(fs_parts[ThisPart])
    /\ part_requests' = part_requests \cup {ThisPart}
    /\ fs_parts' = [fs_parts EXCEPT ![ThisPart] =
                                    [final |-> "renamed", tmp |-> FALSE]]
    /\ NextPartOrPost
    /\ UNCHANGED <<clientVars, loanVars, err, err_detail, dl_mode, dl_args,
                   dl_runs, dl_exit, fs_odm, fs_license, fs_merged,
                   license_requests, tocVars, callVars, tsVars, odmVars>>

\* merging raises after the loop (merge_into_mp3, eyed3, or the TypeError of
\* the chapter offsets): the run ends before any file is removed
RunMergeRaises ==
    /\ pc = "post"
    /\ dl_args.merge_output
    /\ Exit(1, "Exception")
    /\ UNCHANGED <<clientVars, loanVars, err_detail, dl_mode, dl_args, dl_runs,
                   dl_i, fs_odm, fs_license, fs_parts, fs_merged,
                   license_requests, part_requests, tocVars, callVars, tsVars,
                   odmVars>>

\* mutant: the license file is removed whether or not cleanup was asked for
RunFinishRemovesLicense ==
    /\ pc = "post"
    /\ fs_merged' = (fs_merged \/ dl_args.merge_output)
    /\ fs_parts' = IF dl_args.merge_output /\ ~dl_args.keep_mp3
                   THEN [i \in 1..Len(DlParts) |-> [fs_parts[i] EXCEPT !.final = "none"]]
                   ELSE fs_parts
    /\ fs_odm' = IF dl_args.cleanup_odm_license THEN FALSE ELSE fs_odm
    /\ fs_license' = "none"
    /\ Exit(0, "none")
    /\ UNCHANGED <<clientVars, loanVars, err_detail, dl_mode, dl_args, dl_runs,
                   dl_i, license_requests, part_requests, tocVars, callVars,
                   tsVars, odmVars>>

\* the rest of the run: the merged file is written (merge_output), the part
\* files are removed (not keep_mp3), the odm and license files are removed
\* (cleanup_odm_license)
RunFinish ==
    /\ pc = "post"
    /\ fs_merged' = (fs_merged \/ dl_args.merge_output)
    /\ fs_parts' = IF dl_args.merge_output /\ ~dl_args.keep_mp3
                   THEN [i \in 1..Len(DlParts) |-> [fs_parts[i] EXCEPT !.final = "none"]]
                   ELSE fs_parts
    /\ fs_odm' = IF dl_args.cleanup_odm_license THEN FALSE ELSE fs_odm
    /\ fs_license' = IF dl_args.cleanup_odm_license THEN "none" ELSE fs_license
    /\ Exit(0, "none")
    /\ UNCHANGED <<clientVars, loanVars, err_detail, dl_mode, dl_args, dl_runs,
                   dl_i, license_requests, part_requests, tocVars, callVars,
                   tsVars, odmVars>>

NextDl ==
    \/ RunAlreadyMerged
    \/ RunBegin
    \/ LicenseAlreadyDownloaded
    \/ LicenseAcquired
    \/ LicenseRequestFails
    \/ LicenseBodyBreaks
    \/ PartAlreadySaved
    \/ PartRequestFails
    \/ PartBodyBreaks
    \/ PartRemuxed
    \/ PartFfmpegFails
    \/ RunMergeRaises
    \/ RunFinish

SpecDl == InitDl /\ [][NextDl]_vars

----------------------------------------------------------------------------
(* LibbyClient: the identity settings, and get_loan_format.  A dict is a   *)
(* function on its keys; Python's None is the string "None".               *)

\* largest number of formats of a loan
MaxFormats == 3

IdentityKeys == {"identity", "__libby_sync_code", "__odmpy_sync_code"}

\* values of the identity settings: tokens, and the empty string
IdentityValues == {"", "A", "B"}

\* the dicts over the identity keys
IdentityDicts ==
    UNION { [ks -> IdentityValues] : ks \in SUBSET IdentityKeys }

\* dict.get(k)
Get(d, k) == IF k \in DOMAIN d THEN d[k] ELSE "None"

\* bool(v)
Truthy(v) == v \notin {"", "None"}

\* d.update(updates)
Update(d, updates) ==
    [k \in (DOMAIN d) \cup (DOMAIN updates) |->
        IF k \in DOMAIN updates THEN updates[k] ELSE d[k]]

has_chip(id) == Truthy(Get(id, "identity"))

has_sync_code(id) ==
    Truthy(Get(id, "__libby_sync_code")) \/ Truthy(Get(id, "__odmpy_sync_code"))

\* "a or b"
get_token(token, id) == IF Truthy(token) THEN token ELSE Get(id, "identity")

\* "migrate old sync code storage key"
Migrated(d) ==
    IF Truthy(Get(d, "__odmpy_sync_code"))
    THEN LET d1 == IF Truthy(Get(d, "__libby_sync_code")) THEN d
                   ELSE Update(d, [k \in {"__libby_sync_code"} |->
                                      d["__odmpy_sync_code"]])
         IN  [k \in (DOMAIN d1) \ {"__odmpy_sync_code"} |-> d1[k]]
    ELSE d

\* the client after __init__: settings_folder given or not, libby.json
\* there or not (settings_file is <<>> or holds the one dict of the file)
InitClient ==
    /\ pc = "client"
    /\ err = "none"
    /\ err_detail = <<>>
    /\ toc = <<>>
    /\ spine = <<>>
    /\ IdleToc
    /\ IdleCall
    /\ IdleTs
    /\ IdleOdm
    /\ IdleDl
    /\ IdleLoan
    /\ identity_token \in {"None", "T"}
    /\ identity_settings_file \in BOOLEAN
    /\ \E saved \in {<<>>} \cup { <<d>> : d \in IdentityDicts } :
        IF identity_settings_file /\ saved # <<>>
        THEN /\ identity = Migrated(saved[1])
             /\ settings_file = << Migrated(saved[1]) >>
        ELSE /\ identity = <<>>
             /\ settings_file = <<>>

\* save_settings(updates) without a settings file: the dict is updated
\* and then ValueError is raised
SaveSettingsValueError ==
    /\ pc \in {"client", "saved", "raised", "cleared"}
    /\ ~identity_settings_file
    /\ \E updates \in IdentityDicts : identity' = Update(identity, updates)
    /\ pc' = "raised"
    /\ err' = "ValueError"
    /\ err_detail' = <<"Unable to save settings because settings_folder is not defined">>
    /\ UNCHANGED <<dlVars, loanVars, identity_token, identity_settings_file,
                   settings_file, tocVars, callVars, tsVars, odmVars>>

\* save_settings(updates) with a settings file: the updated dict is dumped
SaveSettings ==
    /\ pc \in {"client", "saved", "raised", "cleared"}
    /\ identity_settings_file
    /\ \E updates \in IdentityDicts :
        /\ identity' = Update(identity, updates)
        /\ settings_file' = << Update(identity, updates) >>
    /\ pc' = "saved"
    /\ err' = "none"
    /\ err_detail' = <<>>
    /\ UNCHANGED <<dlVars, loanVars, identity_token, identity_settings_file,
                   tocVars, callVars, tsVars, odmVars>>

\* clear_settings()
ClearSettings ==
    /\ pc \in {"client", "saved", "raised", "cleared"}
    /\ settings_file' = IF identity_settings_file THEN <<>> ELSE settings_file
    /\ identity' = <<>>
    /\ pc' = "cleared"
    /\ err' = "none"
    /\ err_detail' = <<>>
    /\ UNCHANGED <<dlVars, loanVars, identity_token, identity_settings_file,
                   tocVars, callVars, tsVars, odmVars>>

NextClient ==
    \/ SaveSettingsValueError
    \/ SaveSettings
    \/ ClearSettings

SpecClient == InitClient /\ [][NextClient]_vars

\* the members of LibbyFormats, in the order of the class
LibbyFormats ==
    << "audiobook-mp3", "audiobook-overdrive", "ebook-epub-adobe",
       "ebook-epub-open", "ebook-pdf-adobe", "ebook-pdf-open", "ebook-kobo",
       "ebook-kindle", "ebook-overdrive", "magazine-overdrive" >>

EBOOK_DOWNLOADABLE_FORMATS ==
    { "ebook-epub-adobe", "ebook-epub-open", "ebook-pdf-adobe", "ebook-pdf-open" }

DOWNLOADABLE_FORMATS ==
    { "audiobook-mp3", "ebook-epub-adobe", "ebook-epub-open", "ebook-pdf-adobe",
      "ebook-pdf-open", "magazine-overdrive" }

FormatIds == { LibbyFormats[i] : i \in 1..Len(LibbyFormats) }

Reversed(q) == [i \in 1..Len(q) |-> q[Len(q) + 1 - i]]

\* a loan with the formats S, those of L locked in, listed in this order
LoanOf(order, S, L) ==
    [ formats |->
        LET ids == SelectSeq(order, LAMBDA f : f \in S)
        IN  [i \in 1..Len(ids) |-> [id |-> ids[i], isLockedIn |-> ids[i] \in L]] ]

\* loans with up to max formats, any of them flagged as locked in
Loans(max) ==
    UNION { { LoanOf(order, S, L) :
                order \in {LibbyFormats, Reversed(LibbyFormats)},
                L \in SUBSET S } :
            S \in { X \in SUBSET FormatIds : Cardinality(X) <= max } }

\* next(iter([f["id"] for f in loan["formats"] if f.get("isLockedIn")]), None)
LockedInFormat(l) ==
    LET locked == SelectSeq(l.formats, LAMBDA f : f.isLockedIn)
    IN  IF locked = <<>> THEN "None" ELSE locked[1].id

has_format(l, format_id) ==
    \E i \in 1..Len(l.formats) : l.formats[i].id = format_id

is_downloadable_audiobook_loan(l) == has_format(l, "audiobook-mp3")

is_downloadable_ebook_loan(l) ==
    \E i \in 1..Len(l.formats) : l.formats[i].id \in EBOOK_DOWNLOADABLE_FORMATS

is_downloadable_magazine_loan(l) == has_format(l, "magazine-overdrive")

is_open_ebook_loan(l) == has_format(l, "ebook-epub-open")

\* mutant: prefer_open_format is not looked at
GetLoanFormatIgnoresPreference(l, prefer) ==
    LET locked_in_format == LockedInFormat(l)
    IN  IF Truthy(locked_in_format)
        THEN IF locked_in_format \in DOWNLOADABLE_FORMATS
             THEN locked_in_format
             ELSE "ValueError"
        ELSE
          IF is_downloadable_audiobook_loan(l) /\ has_format(l, "audiobook-mp3")
          THEN "audiobook-mp3"
          ELSE IF is_open_ebook_loan(l) /\ has_format(l, "ebook-epub-open")
          THEN "ebook-epub-open"
          ELSE IF is_downloadable_magazine_loan(l) /\ has_format(l, "magazine-overdrive")
          THEN "magazine-overdrive"
          ELSE IF is_downloadable_ebook_loan(l) /\ has_format(l, "ebook-epub-adobe")
          THEN "ebook-epub-adobe"
          ELSE IF is_downloadable_ebook_loan(l) /\ has_format(l, "ebook-pdf-open")
          THEN "ebook-pdf-open"
          ELSE IF is_downloadable_ebook_loan(l) /\ has_format(l, "ebook-pdf-adobe")
          THEN "ebook-pdf-adobe"
          ELSE "ValueError"

\* get_loan_format(loan, prefer_open_format): the format it returns, or
\* "ValueError" when it raises
get_loan_format(l, prefer) ==
    LET locked_in_format == LockedInFormat(l)
    IN  IF Truthy(locked_in_format)
        THEN IF locked_in_format \in DOWNLOADABLE_FORMATS
             THEN locked_in_format
             ELSE "ValueError"
        ELSE
          IF is_downloadable_audiobook_loan(l) /\ has_format(l, "audiobook-mp3")
          THEN "audiobook-mp3"
          ELSE IF is_open_ebook_loan(l) /\ has_format(l, "ebook-epub-open") /\ prefer
          THEN "ebook-epub-open"
          ELSE IF is_downloadable_magazine_loan(l) /\ has_format(l, "magazine-overdrive")
          THEN "magazine-overdrive"
          ELSE IF is_downloadable_ebook_loan(l) /\ has_format(l, "ebook-epub-adobe")
          THEN "ebook-epub-adobe"
          ELSE IF is_downloadable_ebook_loan(l) /\ has_format(l, "ebook-pdf-open") /\ prefer
          THEN "ebook-pdf-open"
          ELSE IF is_downloadable_ebook_loan(l) /\ has_format(l, "ebook-pdf-adobe")
          THEN "ebook-pdf-adobe"
          ELSE "ValueError"

InitLoan ==
    /\ pc = "call"
    /\ err = "none"
    /\ err_detail = <<>>
    /\ toc = <<>>
    /\ spine = <<>>
    /\ IdleToc
    /\ IdleCall
    /\ IdleTs
    /\ IdleOdm
    /\ IdleDl
    /\ IdleClient
    /\ loan \in Loans(MaxFormats)
    /\ prefer_open_format \in BOOLEAN
    /\ loan_format = ""

GetLoanFormatReturn ==
    /\ pc = "call"
    /\ get_loan_format(loan, prefer_open_format) # "ValueError"
    /\ loan_format' = get_loan_format(loan, prefer_open_format)
    /\ pc' = "returned"
    /\ UNCHANGED <<dlVars, clientVars, loan, prefer_open_format, err,
                   err_detail, tocVars, callVars, tsVars, odmVars>>

GetLoanFormatValueError ==
    /\ pc = "call"
    /\ get_loan_format(loan, prefer_open_format) = "ValueError"
    /\ pc' = "raised"
    /\ err' = "ValueError"
    /\ err_detail' =
         IF Truthy(LockedInFormat(loan))
         THEN <<"Loan is locked to a non-downloadable format", LockedInFormat(loan)>>
         ELSE <<"Unable to find a downloadable format">>
    /\ UNCHANGED <<dlVars, clientVars, loanVars, tocVars, callVars, tsVars,
                   odmVars>>

NextLoan ==
    \/ GetLoanFormatReturn
    \/ GetLoanFormatValueError

SpecLoan == InitLoan /\ [][NextLoan]_vars

----------------------------------------------------------------------------
(* Vocabulary of the properties *)

\* parse_toc has returned (merge_toc leaves its result as it is)
Returned == pc \in {"parsed", "merged"}

RECURSIVE OffsetOf(_, _)
\* sum of the audio-duration of the parts before the i-th
OffsetOf(parts, i) ==
    IF i <= 1 THEN 0 ELSE OffsetOf(parts, i - 1) + parts[i - 1].audio_duration

TotalDuration(parts) == OffsetOf(parts, Len(parts) + 1)

RECURSIVE FlatChapters(_)
\* every chapter of every part, in part order then list order
FlatChapters(parts) ==
    IF parts = <<>> THEN <<>>
    ELSE LET n == Len(parts)
         IN  FlatChapters(SubSeq(parts, 1, n - 1))
             \o [j \in 1..Len(parts[n].chapters) |->
                    [part |-> n, marker |-> parts[n].chapters[j]]]

TitleAt(flat, n) == flat[n].marker.title

DistinctTitles(flat) ==
    \A a, b \in 1..Len(flat) : TitleAt(flat, a) = TitleAt(flat, b) => a = b

\* start and end of the n-th chapter on the concatenated time line
ShiftedStart(parts, flat, n) ==
    OffsetOf(parts, flat[n].part) + flat[n].marker.start_second

ShiftedEnd(parts, flat, n) ==
    OffsetOf(parts, flat[n].part) + flat[n].marker.end_second

\* the positions among the first n chapters that carry title t
Occurrences(flat, n, t) == { a \in 1..n : TitleAt(flat, a) = t }

Least(S) == CHOOSE x \in S : \A y \in S : x <= y
Greatest(S) == CHOOSE x \in S : \A y \in S : x >= y

\* number of different titles among the first n chapters
TitleCount(flat, n) == Cardinality({ TitleAt(flat, a) : a \in 1..n })

----------------------------------------------------------------------------
(* Properties of merge_toc *)

\* C1: when no chapter title occurs twice over all parts, merge_toc emits
\* exactly one marker per chapter, in part order then list order, whose start
\* and end are the chapter's shifted by the durations of the preceding parts.
C1_MergeShiftsEveryChapter ==
    LET flat == FlatChapters(parsed_toc)
    IN  (pc = "merged" /\ DistinctTitles(flat)) =>
            /\ Len(merged) = Len(flat)
            /\ \A n \in 1..Len(flat) :
                   merged[n] = ChapterMarker(TitleAt(flat, n), <<>>,
                                             ShiftedStart(parsed_toc, flat, n),
                                             ShiftedEnd(parsed_toc, flat, n))

\* the two-part case: Intro fills part 1, Ch1 fills part 2
C1_Witness ==
    /\ pc = "merged"
    /\ Len(parsed_toc) = 2
    /\ DistinctTitles(FlatChapters(parsed_toc))
    /\ merged = << ChapterMarker("Intro", <<>>, 0, 100),
                   ChapterMarker("Ch1", <<>>, 100, 120) >>

\* C2: once a title has an entry in the merge, a further marker with that
\* title appends nothing: the title keeps its single entry, at the position
\* and with the start of its first occurrence, and the entry's end is the
\* shifted end of the latest marker with that title.
C2_TitleCollisionExtendsEntry ==
    LET flat == FlatChapters(parsed_toc)
    IN  Returned =>
          \A n \in 1..mk :
            LET t     == TitleAt(flat, n)
                occ   == Occurrences(flat, mk, t)
                first == Least(occ)
                last  == Greatest(occ)
                k     == TitleCount(flat, first)
            IN  first < n =>
                  /\ Cardinality({ i \in 1..Len(chapters) : chapters[i].title = t }) = 1
                  /\ k <= Len(chapters)
                  /\ chapters[k].title = t
                  /\ chapters[k].start = ShiftedStart(parsed_toc, flat, first)
                  /\ chapters[k].end = ShiftedEnd(parsed_toc, flat, last)
                  /\ pc = "merged" =>
                        merged[k] = ChapterMarker(t, <<>>, chapters[k].start,
                                                  chapters[k].end)

\* Intro opens part 1 and comes back in part 3, with another part in between
C2_Witness ==
    /\ pc = "merged"
    /\ Len(parsed_toc) = 3
    /\ parsed_toc[1].chapters[1].title = "Intro"
    /\ \A j \in 1..Len(parsed_toc[2].chapters) :
           parsed_toc[2].chapters[j].title # "Intro"
    /\ parsed_toc[3].chapters[1].title = "Intro"
    /\ parsed_toc[3].audio_duration > 0
    /\ merged[1] = ChapterMarker("Intro", <<>>, 0,
                                 TotalDuration(parsed_toc))

\* every part of the result was given its duration by a spine record
SpineCoversToc ==
    \A i \in 1..Len(parsed_toc) :
        \E n \in 1..Len(spine) :
            spine[n].odread_original_path = parsed_toc[i].key

\* each marker ends where the next one starts, the last one at the total
GapFree(ms, total) ==
    /\ \A n \in 1..(Len(ms) - 1) : ms[n].end_second = ms[n + 1].start_second
    /\ ms # <<>> => ms[Len(ms)].end_second = total

\* a title that recurs does so only in consecutive chapters
TitlesContiguous(flat) ==
    \A a, b \in 1..Len(flat) :
        (a < b /\ TitleAt(flat, a) = TitleAt(flat, b)) =>
            \A c \in a..b : TitleAt(flat, c) = TitleAt(flat, a)

FirstChaptersAtZero(parts) ==
    \A i \in 1..Len(parts) :
        parts[i].chapters # <<>> => parts[i].chapters[1].start_second = 0

\* C3 as stated: the merged timeline of every parse_toc result is gap-free
\* (taken over the results whose parts all have a spine record).
C3_AlwaysGapFree ==
    (pc = "merged" /\ SpineCoversToc)
        => GapFree(merged, TotalDuration(parsed_toc))

\* C3, amended: the merged timeline is gap-free when every part's first
\* chapter starts at 0 and a recurring title recurs only in consecutive
\* chapters of the concatenated chapter sequence.
C3_GapFreeWhenContiguous ==
    (/\ pc = "merged"
     /\ FirstChaptersAtZero(parsed_toc)
     /\ TitlesContiguous(FlatChapters(parsed_toc)))
        => GapFree(merged, TotalDuration(parsed_toc))

\* a chapter runs over the part boundary: Ch1 closes part 1 and opens part 2
C3_Witness ==
    /\ pc = "merged"
    /\ Len(parsed_toc) = 2
    /\ FirstChaptersAtZero(parsed_toc)
    /\ TitlesContiguous(FlatChapters(parsed_toc))
    /\ Len(parsed_toc[1].chapters) = 2
    /\ parsed_toc[1].chapters[2].title = parsed_toc[2].chapters[1].title
    /\ TotalDuration(parsed_toc) = 120
    /\ Len(merged) = 2
    /\ merged[2].start_second = 50
    /\ merged[2].end_second = 120

NonDecreasingStarts(ms) ==
    \A n \in 1..(Len(ms) - 1) : ms[n].start_second <= ms[n + 1].start_second

\* every part lists its chapters by ascending start, none after the part's end
ChaptersInOrderWithinPart(parts) ==
    \A i \in 1..Len(parts) :
        /\ NonDecreasingStarts(parts[i].chapters)
        /\ \A j \in 1..Len(parts[i].chapters) :
               parts[i].chapters[j].start_second <= parts[i].audio_duration

\* C4 as stated: the merged starts of every parse_toc result never decrease
\* (taken over the results whose parts all have a spine record).
C4_AlwaysNonDecreasingStarts ==
    (pc = "merged" /\ SpineCoversToc) => NonDecreasingStarts(merged)

\* C4, amended: the merged starts never decrease when every part lists its
\* chapters by ascending start and no chapter starts after its part's
\* audio-duration.
C4_NonDecreasingStartsWhenOrdered ==
    (pc = "merged" /\ ChaptersInOrderWithinPart(parsed_toc))
        => NonDecreasingStarts(merged)

\* part 1 opens at its second 5, part 2 at its second 0
C4_Witness ==
    /\ pc = "merged"
    /\ ChaptersInOrderWithinPart(parsed_toc)
    /\ Len(parsed_toc) = 2
    /\ Len(merged) = 2
    /\ merged[1].start_second = 50
    /\ merged[2].start_second = 100

----------------------------------------------------------------------------
(* Properties of parse_toc *)

\* the flattened entries of the TOC that belong to part p, in TOC order
PartEntries(p) == SelectSeq(TocEntries(toc), LAMBDA e : e.part_name = p)

\* the positions of es that open a run of equal titles
RunHeadPositions(es) ==
    { k \in 1..Len(es) : k = 1 \/ es[k].title # es[k - 1].title }

\* the n-th smallest element of a set of numbers
NthOf(S, n) == CHOOSE x \in S : Cardinality({ y \in S : y < x }) = n - 1

SameMark(chapter, entry) ==
    /\ chapter.title = entry.title
    /\ chapter.part_name = entry.part_name
    /\ chapter.start_second = entry.start_second

\* the chapters ch of a part with entries es: the first entry is kept, no two
\* consecutive chapters share a title, no more chapters than runs of titles
DuplicatesDropped(es, ch) ==
    /\ ch # <<>>
    /\ SameMark(ch[1], es[1])
    /\ \A j \in 1..(Len(ch) - 1) : ch[j].title # ch[j + 1].title
    /\ Len(ch) <= Cardinality(RunHeadPositions(es))

\* the entries of es at the positions heads are the first chapters of ch
HeadsKept(es, ch, heads) ==
    /\ Len(ch) >= Cardinality(heads)
    /\ \A n \in 1..Cardinality(heads) : SameMark(ch[n], es[NthOf(heads, n)])

\* the chapters ch are exactly the entries of es that open a run of titles
ExactlyRunHeads(es, ch, heads) ==
    Len(ch) = Cardinality(heads) /\ HeadsKept(es, ch, heads)

\* the same two statements about the runs of es itself
RunHeadsKept(es, ch) == HeadsKept(es, ch, RunHeadPositions(es))

ExactlyRunHeadsOf(es, ch) == ExactlyRunHeads(es, ch, RunHeadPositions(es))

\* C5: in every part of the result the first entry of the part is kept, no
\* two consecutive chapters carry the same title, and no more chapters are
\* kept than the part's entries have runs of equal titles (an entry that
\* repeats the title of the chapter kept last is dropped).
C5_AdjacentDuplicatesDropped ==
    Returned =>
        \A i \in 1..Len(parsed_toc) :
            DuplicatesDropped(PartEntries(parsed_toc[i].key), parsed_toc[i].chapters)

\* (Ch1, A), (Ch1, A#5), (Intro, A#5) with a 10 s part: Ch1 [0,5), Intro [5,10)
C5_Witness ==
    /\ pc = "parsed"
    /\ Len(TocEntries(toc)) = 3
    /\ \A n \in 1..3 : TocEntries(toc)[n].part_name = PartA
    /\ TocEntries(toc)[2].title = "Ch1"
    /\ TocEntries(toc)[2].start_second = 50
    /\ Len(parsed_toc) = 1
    /\ parsed_toc[1].chapters = << ChapterMarker("Ch1", PartA, 0, 50),
                                   ChapterMarker("Intro", PartA, 50, 100) >>

\* C6: every entry of a part whose title differs from the title of the
\* part's entry before it is a chapter of its own, in TOC order, also when
\* the same title was used earlier in the part.
C6_NonAdjacentRepeatsKept ==
    Returned =>
        \A i \in 1..Len(parsed_toc) :
            RunHeadsKept(PartEntries(parsed_toc[i].key), parsed_toc[i].chapters)

\* Intro, Ch1, Intro in one part are three chapters
C6_Witness ==
    /\ pc = "parsed"
    /\ Len(parsed_toc) = 1
    /\ Len(parsed_toc[1].chapters) = 3
    /\ parsed_toc[1].chapters[1].title = "Intro"
    /\ parsed_toc[1].chapters[2].title = "Ch1"
    /\ parsed_toc[1].chapters[3].title = "Intro"

\* C7: in every part of the result a chapter ends where the next chapter of
\* the part starts, and the part's last chapter ends at its audio-duration.
C7_EndIsNextStart ==
    Returned =>
        \A i \in 1..Len(parsed_toc) :
            LET ch == parsed_toc[i].chapters
            IN  \A j \in 1..Len(ch) :
                    ch[j].end_second =
                        IF j < Len(ch) THEN ch[j + 1].start_second
                        ELSE parsed_toc[i].audio_duration

\* a part of 10 s with three chapters
C7_Witness ==
    /\ pc = "parsed"
    /\ \E i \in 1..Len(parsed_toc) :
           /\ Len(parsed_toc[i].chapters) = 3
           /\ parsed_toc[i].audio_duration = 100
           /\ parsed_toc[i].chapters[2].start_second = 50

\* position of the spine record of part k, 0 when the spine has none
SpineIndex(k) ==
    IF \E n \in 1..Len(spine) : spine[n].odread_original_path = k
    THEN CHOOSE n \in 1..Len(spine) : spine[n].odread_original_path = k
    ELSE 0

\* C8: the parts of the result are in spine order, and the offset merge_toc
\* uses for a part is the duration of the parts before it in the spine.
C8_PartsInSpineOrder ==
    Returned =>
        /\ \A i, k \in 1..Len(parsed_toc) :
              (/\ i < k
               /\ SpineIndex(parsed_toc[i].key) # 0
               /\ SpineIndex(parsed_toc[k].key) # 0)
                  => SpineIndex(parsed_toc[i].key) < SpineIndex(parsed_toc[k].key)
        /\ \A i \in 1..Len(parsed_toc) :
              SpineIndex(parsed_toc[i].key) # 0 =>
                  OffsetOf(parsed_toc, i) =
                      OffsetOf(spine, SpineIndex(parsed_toc[i].key))

\* C9: parse_toc never returns a part that has no spine record.
C9_PartWithoutSpineRecordRaises ==
    Returned =>
        \A i \in 1..Len(parsed_toc) : SpineIndex(parsed_toc[i].key) # 0

\* C10: with an empty TOC and an empty spine parse_toc raises EmptyMarkerSet.
C10_EmptyInputRaises ==
    (toc = <<>> /\ spine = <<>> /\ pc # "start") =>
        (pc = "raised" /\ err = "EmptyMarkerSet")

\* every part of ps has at least one chapter
ChaptersNonEmpty(ps) == \A i \in 1..Len(ps) : ps[i].chapters # <<>>

\* C16 as stated: every part's chapter list is non-empty and ordered by
\* start_second ascending (taken over the results whose parts all have a
\* spine record).
C16_AlwaysAscendingChapters ==
    (Returned /\ SpineCoversToc) =>
        /\ ChaptersNonEmpty(parsed_toc)
        /\ \A i \in 1..Len(parsed_toc) : NonDecreasingStarts(parsed_toc[i].chapters)

\* C16, amended: every part's chapter list is non-empty, and it is ordered by
\* start_second ascending whenever the TOC lists that part's entries by
\* ascending start.
C16_AscendingWhenTocAscending ==
    Returned =>
        /\ ChaptersNonEmpty(parsed_toc)
        /\ \A i \in 1..Len(parsed_toc) :
              NonDecreasingStarts(PartEntries(parsed_toc[i].key))
                  => NonDecreasingStarts(parsed_toc[i].chapters)

\* a part whose three entries are listed in time order, the third repeating
\* the second's title
C16_Witness ==
    /\ pc = "parsed"
    /\ Len(parsed_toc) = 1
    /\ Len(PartEntries(parsed_toc[1].key)) = 3
    /\ NonDecreasingStarts(PartEntries(parsed_toc[1].key))
    /\ Len(parsed_toc[1].chapters) = 2
    /\ parsed_toc[1].chapters[1].start_second = 0
    /\ parsed_toc[1].chapters[2].start_second = 50

EndNotBeforeStart(ms) ==
    \A n \in 1..Len(ms) : ms[n].end_second >= ms[n].start_second

\* C17 as stated: every chapter of parse_toc's and of merge_toc's result has
\* end_second >= start_second (taken over the results whose parts all have
\* a spine record).
C17_AlwaysEndNotBeforeStart ==
    (Returned /\ SpineCoversToc) =>
        /\ \A i \in 1..Len(parsed_toc) : EndNotBeforeStart(parsed_toc[i].chapters)
        /\ pc = "merged" => EndNotBeforeStart(merged)

\* C17, amended: every chapter of both results has end_second >=
\* start_second when every part lists its chapters by ascending start and no
\* chapter starts after its part's audio-duration.
C17_EndNotBeforeStartWhenOrdered ==
    (Returned /\ ChaptersInOrderWithinPart(parsed_toc)) =>
        /\ \A i \in 1..Len(parsed_toc) : EndNotBeforeStart(parsed_toc[i].chapters)
        /\ pc = "merged" => EndNotBeforeStart(merged)

\* part 2 (2 s long) has its only chapter start at 0, part 1 has two chapters
C17_Witness ==
    /\ pc = "merged"
    /\ ChaptersInOrderWithinPart(parsed_toc)
    /\ Len(parsed_toc) = 2
    /\ Len(parsed_toc[1].chapters) = 2
    /\ parsed_toc[1].chapters[1].end_second = 50
    /\ parsed_toc[2].audio_duration = 20
    /\ merged[2].start_second = 50
    /\ merged[2].end_second = 120

\* C18: merge_toc leaves the parsed TOC as parse_toc returned it, during and
\* after each call, and a second call on the same parsed TOC returns a list
\* equal to the first call's.
C18_MergeLeavesParsedToc ==
    /\ [][Returned => parsed_toc' = parsed_toc]_vars
    /\ []((pc = "merged" /\ first_merged # <<>>) => merged = first_merged[1])

\* the second call has returned, on two parts and two merged chapters
C18_Witness ==
    /\ pc = "merged"
    /\ first_merged # <<>>
    /\ Len(parsed_toc) = 2
    /\ Len(merged) = 2
    /\ merged[2].end_second = 120
    /\ first_merged[1] = merged

RECURSIVE ItemStart(_, _)
\* number of TOC entries, top-level and nested, before the i-th item
ItemStart(t, i) ==
    IF i <= 1 THEN 0 ELSE ItemStart(t, i - 1) + 1 + Len(t[i - 1].contents)

\* the item that the n-th entry in document order belongs to
ItemOf(t, n) ==
    CHOOSE i \in 1..Len(t) : ItemStart(t, i) < n /\ n <= ItemStart(t, i + 1)

\* the n-th entry in document order, under its item's title
DocEntry(t, n) ==
    LET i == ItemOf(t, n)
        k == n - ItemStart(t, i) - 1
    IN  parse_part_path(t[i].title,
                        IF k = 0 THEN t[i].path ELSE t[i].contents[k].path)

\* the document-order entries that belong to part p
DocPartEntries(t, p) ==
    SelectSeq([n \in 1..ItemStart(t, Len(t) + 1) |-> DocEntry(t, n)],
              LAMBDA e : e.part_name = p)

\* C20: the chapters of every part are the part's entries in document order
\* (an item, then its nested entries), each under its top-level item's
\* title, without the entries that repeat the title of the entry before
\* them; so a nested entry that follows its parent in the parent's part
\* leaves no chapter.
C20_NestedEntriesCarryParentTitle ==
    Returned =>
        \A i \in 1..Len(parsed_toc) :
            ExactlyRunHeadsOf(DocPartEntries(toc, parsed_toc[i].key),
                              parsed_toc[i].chapters)

\* one item with a nested entry 5 s into the same part: a single chapter
C20_Witness ==
    /\ pc = "parsed"
    /\ Len(toc) = 1
    /\ Len(toc[1].contents) = 1
    /\ toc[1].path = PartA
    /\ toc[1].contents[1].path = PartA \o <<"#", "5">>
    /\ Len(parsed_toc) = 1
    /\ parsed_toc[1].chapters = << ChapterMarker(toc[1].title, PartA, 0, 100) >>

----------------------------------------------------------------------------
(* Properties of parse_part_path *)

\* the well-formed paths: "{token}suffix", "{token}suffix#n", "{token}suffix#n.d"
IsWellFormedPath(p) ==
    \E n \in GoodNames, f \in GoodFragTexts : p = n \o f

\* C11: for a path "{token}suffix[#seconds]" parse_part_path returns the
\* given title, the path up to the "#" as part_name, the fragment's value
\* (0 without fragment) as start_second, and end_second 0.
C11_WellFormedPathParsed ==
    pc \in {"returned", "raised"} =>
        /\ \A n \in GoodNames :
              call_path = n =>
                  /\ pc = "returned"
                  /\ call_result = ChapterMarker(call_title, n, 0, 0)
        /\ \A n \in GoodNames, f \in NumFrags :
              call_path = n \o FragText(f) =>
                  /\ pc = "returned"
                  /\ call_result = ChapterMarker(call_title, n, FragValue(f), 0)

\* "{token}Fmt.mp3#12.5" gives start 12.5 s
C11_Witness ==
    /\ pc = "returned"
    /\ \E t \in GoodTokens :
          /\ call_path = NameText(t, <<"F", "m", "t", ".", "m", "p", "3">>)
                             \o <<"#", "1", "2", ".", "5">>
          /\ call_result.part_name =
                 NameText(t, <<"F", "m", "t", ".", "m", "p", "3">>)
    /\ call_result.start_second = 125
    /\ call_result.end_second = 0

\* C12: a path that is not well-formed makes parse_part_path raise an error
\* that carries the path, and parse_toc raises the same error, returning
\* nothing, when any top-level or nested entry has such a path.
C12_MalformedPathRaises ==
    /\ (/\ pc \in {"returned", "raised"}
        /\ toc = <<>>
        /\ ~IsWellFormedPath(call_path)) =>
           /\ pc = "raised"
           /\ err = "ValueError"
           /\ err_detail[2] = call_path
    /\ (/\ pc \in {"parsed", "raised"}
        /\ \E n \in 1..Len(TocPaths(toc)) : ~IsWellFormedPath(TocPaths(toc)[n])) =>
           /\ pc = "raised"
           /\ err = "ValueError"
           /\ ~IsWellFormedPath(err_detail[2])
           /\ \E n \in 1..Len(TocPaths(toc)) : TocPaths(toc)[n] = err_detail[2]
           /\ parsed_toc = <<>>

\* a nested entry whose fragment is not a number
C12_Witness ==
    /\ pc = "raised"
    /\ err = "ValueError"
    /\ Len(toc) = 1
    /\ Len(toc[1].contents) = 1
    /\ toc[1].contents[1].path = err_detail[2]
    /\ err_detail[2] = NameText(Uuid("A"), <<"p", "1">>) \o <<"#", "x">>

----------------------------------------------------------------------------
(* Properties of the marker timestamp parser *)

\* C13: for any (h, m, s, ms) with m, s < 60 the text HH:MM:SS.mmm parses to
\* exactly h*3600000 + m*60000 + s*1000 + ms milliseconds.
C13_TimestampRoundTrip ==
    \A f \in TsFields :
        (/\ pc # "marker"
         /\ f.m < 60 /\ f.s < 60
         /\ marker_timestamp = FormatHHMMSS(f)) =>
            /\ pc = "marked"
            /\ ts_mark = LinearSum(f.h, f.m, f.s, f.ms)

\* C14: with a seconds field of 60 both strict attempts fail and the
\* permissive parser yields h*3600000 + m*60000 + 60*1000 + ms.
C14_Seconds60GoesPermissive ==
    \A f \in TsFields :
        (/\ pc # "marker"
         /\ f.s = 60
         /\ marker_timestamp = FormatHHMMSS(f)) =>
            /\ pc = "marked"
            /\ timestamp = <<>>
            /\ ts_mark = LinearSum(f.h, f.m, 60, f.ms)

\* C19: when both strict attempts fail, a text of the shape HH:MM:SS.mmm or
\* MM:SS.mmm yields hours*3600000 + minutes*60000 + seconds*1000 +
\* milliseconds whatever the size of the fields; 60:15.00 yields 3615000.
C19_PermissiveLinearSum ==
    (pc # "marker" /\ timestamp = <<>>) =>
        /\ \A f \in TsFields :
              /\ marker_timestamp = FormatHHMMSS(f) =>
                     /\ pc = "marked"
                     /\ ts_mark = LinearSum(f.h, f.m, f.s, f.ms)
              /\ marker_timestamp = FormatMMSS(f) =>
                     /\ pc = "marked"
                     /\ ts_mark = LinearSum(0, f.m, f.s, f.ms)
        /\ marker_timestamp = <<"6", "0", ":", "1", "5", ".", "0", "0">> =>
               /\ pc = "marked"
               /\ ts_mark = 3615000

\* 60:15.00 went through the fallback
C19_Witness ==
    /\ pc = "marked"
    /\ timestamp = <<>>
    /\ marker_timestamp = <<"6", "0", ":", "1", "5", ".", "0", "0">>
    /\ ts_mark = 3615000

----------------------------------------------------------------------------
(* Properties of the loop over the parts *)

\* the tags of part i load, and one of its marker timestamps does not parse
HasInvalidTimestamp(i) ==
    /\ ~od_parts[i].tag_error
    /\ FirstInvalid(od_parts[i].times) > 0

\* C15: a marker timestamp that parses neither strictly nor permissively ends
\* the processing with an error that reaches the caller: nothing is logged,
\* and the part's entry with the markers parsed before is not kept.
C15_InvalidTimestampFailsClosed ==
    \A i \in 1..od_i :
        HasInvalidTimestamp(i) =>
            /\ pc = "raised"
            /\ err = "ValueError"
            /\ od_log = <<>>
            /\ Len(file_tracks) < i

RECURSIVE OdmOffset(_)
\* sum of the decoded durations of the parts before the i-th
OdmOffset(i) == IF i <= 1 THEN 0 ELSE OdmOffset(i - 1) + od_parts[i - 1].duration

RECURSIVE MarkersBefore(_)
\* number of markers that file_tracks holds for the parts before the i-th
MarkersBefore(i) ==
    IF i <= 1 THEN 0 ELSE MarkersBefore(i - 1) + Len(file_tracks[i - 1].markers)

\* process_odm has handled every part and was asked for a merged file with
\* chapter marks
MergeRequested ==
    /\ merge_output /\ add_chapters
    /\ pc \in {"finished", "raised"}

\* C21: the j-th marker of the i-th part is merged with start = marker time
\* + the decoded durations of the parts before, end = the next marker's time
\* in the part + the same offset, or the decoded durations up to and with
\* the part for its last marker; the merged list has one entry per marker.
C21_MergedMarkersShiftedByDurations ==
    MergeRequested =>
        /\ pc = "finished"
        /\ Len(merged_markers) = MarkersBefore(Len(file_tracks) + 1)
        /\ \A i \in 1..Len(file_tracks) :
              \A j \in 1..Len(file_tracks[i].markers) :
                  LET fm == file_tracks[i].markers
                      m  == merged_markers[MarkersBefore(i) + j]
                  IN  /\ m.text = fm[j].name
                      /\ m.start_time = fm[j].ts_mark + OdmOffset(i)
                      /\ m.end_time = IF j < Len(fm)
                                      THEN fm[j + 1].ts_mark + OdmOffset(i)
                                      ELSE OdmOffset(i + 1)

\* the chapter marks of part i were generated
ChaptersGenerated(i) ==
    /\ add_chapters /\ ~merge_output
    /\ ~od_parts[i].tag_error
    /\ FirstInvalid(od_parts[i].times) = 0

\* C22: the chapter marks generated for a part are one per marker, also when
\* neighbours share a name; each ends at the next marker's time, the last at
\* the part's decoded duration in milliseconds.
C22_PartChaptersEndAtNextMarker ==
    \A i \in 1..Len(part_chapters) :
        ChaptersGenerated(i) =>
            LET fm == file_tracks[i].markers
                gm == part_chapters[i]
            IN  /\ Len(gm) = Len(od_parts[i].times)
                /\ Len(fm) = Len(gm)
                /\ \A j \in 1..Len(gm) :
                      /\ gm[j].text = od_parts[i].names[j]
                      /\ gm[j].start_time = fm[j].ts_mark
                      /\ gm[j].end_time = IF j < Len(gm) THEN fm[j + 1].ts_mark
                                          ELSE od_parts[i].time_ms

\* two markers named Ch1, at 0 and at 5:07, give two chapters
C22_Witness ==
    /\ pc = "finished"
    /\ Len(part_chapters) = 1
    /\ ChaptersGenerated(1)
    /\ Len(part_chapters[1]) = 2
    /\ part_chapters[1][1].text = "Ch1"
    /\ part_chapters[1][2].text = "Ch1"
    /\ part_chapters[1][1].end_time = 307000
    /\ part_chapters[1][2].end_time = 400026

\* C23: once every part has been handled, audio_lengths_ms has an entry for
\* each entry of file_tracks, and the i-th length is the duration of the
\* i-th track, also when the loading or tagging of a part raised.
C23_LengthsAlignedWithTracks ==
    od_i = Len(od_parts) =>
        /\ Len(audio_lengths_ms) = Len(file_tracks)
        /\ \A i \in 1..Len(file_tracks) :
              /\ file_tracks[i].file = od_parts[i].file
              /\ i <= Len(audio_lengths_ms)
              /\ audio_lengths_ms[i] = od_parts[i].duration

----------------------------------------------------------------------------
(* Parts of parse_toc's result, titles of merge_toc's result *)

\* a TOC path without its "#seconds" fragment
WithoutFragment(p) ==
    IF \E k \in 1..Len(p) : p[k] = "#"
    THEN SubSeq(p, 1, (CHOOSE k \in 1..Len(p) :
                          p[k] = "#" /\ \A m \in 1..(k - 1) : p[m] # "#") - 1)
    ELSE p

\* the part names that the TOC entries (top-level and nested) refer to
ReferencedParts(t) ==
    UNION { { WithoutFragment(t[i].path) }
            \cup { WithoutFragment(t[i].contents[k].path) :
                       k \in 1..Len(t[i].contents) } : i \in 1..Len(t) }

PartKeys(ps) == { ps[i].key : i \in 1..Len(ps) }

\* some spine record names a part that is not among these
SpineNamesNoneOf(sp, referenced) ==
    \E n \in 1..Len(sp) : sp[n].odread_original_path \notin referenced

\* what a finished parse_toc call has to show, given the referenced parts
ExactlyReferenced(referenced) ==
    /\ Returned =>
          /\ PartKeys(parsed_toc) = referenced
          /\ Cardinality(referenced) = Len(parsed_toc)
          /\ ChaptersNonEmpty(parsed_toc)
    /\ SpineNamesNoneOf(spine, referenced) =>
          /\ pc = "raised"
          /\ parsed_toc = <<>>
          /\ FlattenOK(toc) => err = "KeyError"

\* C24: a result of parse_toc holds one part for every part name a TOC path
\* refers to and no other part, and every part has at least one chapter; a
\* spine record whose path no TOC entry refers to makes parse_toc raise
\* (KeyError when all paths are well-formed) and return nothing.
C24_ExactlyReferencedParts ==
    pc # "start" => ExactlyReferenced(ReferencedParts(toc))

\* the spine lists parts A, B and C, the TOC refers to part A alone
C24_Witness ==
    /\ pc = "raised"
    /\ err = "KeyError"
    /\ Len(toc) = 1
    /\ toc[1].path = PartA
    /\ toc[1].contents = <<>>
    /\ Len(spine) = 3
    /\ err_detail = PartB
    /\ parsed_toc = <<>>

\* the k-th different title in order of first occurrence
NthTitle(flat, k) ==
    TitleAt(flat, Least({ n \in 1..Len(flat) : TitleCount(flat, n) = k }))

TitlesByFirstOccurrence(flat, ms) ==
    /\ Len(ms) = TitleCount(flat, Len(flat))
    /\ \A k \in 1..Len(ms) : ms[k].title = NthTitle(flat, k)
    /\ \A a, b \in 1..Len(ms) : ms[a].title = ms[b].title => a = b

\* C25: the titles of merge_toc's result are pairwise different, there is
\* one entry for each title that occurs in the parts, and the entries are in
\* the order in which the titles first occur; same-title chapters that
\* parse_toc kept apart inside one part are one merged entry.
C25_MergedTitlesDistinct ==
    pc = "merged" => TitlesByFirstOccurrence(FlatChapters(parsed_toc), merged)

\* one part with chapters Intro, Ch1, Intro: two merged entries
C25_Witness ==
    /\ pc = "merged"
    /\ Len(parsed_toc) = 1
    /\ Len(parsed_toc[1].chapters) = 3
    /\ parsed_toc[1].chapters[1].title = "Intro"
    /\ parsed_toc[1].chapters[2].title = "Ch1"
    /\ parsed_toc[1].chapters[3].title = "Intro"
    /\ Len(merged) = 2
    /\ merged[1].title = "Intro"
    /\ merged[2].title = "Ch1"

----------------------------------------------------------------------------
(* Properties of the download folder over several runs *)

\* a download step is about to act on this part
AtPart(i) == pc = "download" /\ ThisPart = i

\* C26: a download step that finds part_filename sends no request for the
\* part; a step that does not find it and does not end the run leaves
\* part_filename on disk and no part_tmp_filename, however ffmpeg fared; a
\* step that ends the run exits with code 1, creates no part_filename and
\* removes no part_tmp_filename.
C26_DownloadStepLeavesFinalFile ==
    [][\A i \in 1..Len(DlParts) :
          AtPart(i) =>
             /\ IsFile(fs_parts[i]) => part_requests' = part_requests
             /\ (~IsFile(fs_parts[i]) /\ pc' # "exited") =>
                    /\ IsFile(fs_parts'[i])
                    /\ ~fs_parts'[i].tmp
                    /\ i \in part_requests'
             /\ pc' = "exited" =>
                    /\ dl_exit' = 1
                    /\ ~IsFile(fs_parts'[i])
                    /\ fs_parts[i].tmp => fs_parts'[i].tmp
      ]_vars

\* a second run resumes part 1 from its temporary file, ffmpeg fails, and
\* the download is renamed to the final name
C26_Witness ==
    /\ dl_runs = 2
    /\ AtPart(2)
    /\ 1 \in part_requests
    /\ fs_parts[1] = [final |-> "renamed", tmp |-> FALSE]

C28_LicenseFileOnlyAfterSuccess ==
    /\ fs_license \in {"none", "complete"}
    /\ (pc = "exited" /\ dl_i = 0 /\ err \in {"HTTPError", "ConnectionError"}) =>
          /\ dl_exit = 1
          /\ fs_license = "none"

----------------------------------------------------------------------------
(* Properties of LibbyClient *)

\* C29: a save_settings call that raises ValueError leaves the identity as
\* it was, so has_chip(), has_sync_code() and get_token() answer as before.
C29_FailedSaveLeavesIdentity ==
    [][(pc' = "raised" /\ err' = "ValueError") =>
          /\ identity' = identity
          /\ has_chip(identity') = has_chip(identity)
          /\ has_sync_code(identity') = has_sync_code(identity)
          /\ get_token(identity_token', identity') = get_token(identity_token, identity)
      ]_vars

\* the formats of DOWNLOADABLE_FORMATS in the order of preference
FormatPriority(prefer) ==
    IF prefer
    THEN << "audiobook-mp3", "ebook-epub-open", "magazine-overdrive",
            "ebook-epub-adobe", "ebook-pdf-open", "ebook-pdf-adobe" >>
    ELSE << "audiobook-mp3", "magazine-overdrive", "ebook-epub-adobe",
            "ebook-pdf-adobe" >>

LoanFormatIds(l) == { l.formats[i].id : i \in 1..Len(l.formats) }

\* the formats of the loan that are locked in
LockedIds(l) == { l.formats[i].id : i \in { j \in 1..Len(l.formats) : l.formats[j].isLockedIn } }

\* the loan's formats in the order of preference
Candidates(l, prefer) ==
    SelectSeq(FormatPriority(prefer), LAMBDA f : f \in LoanFormatIds(l))

\* C30: get_loan_format raises ValueError or returns a member of
\* DOWNLOADABLE_FORMATS that is a format of the loan; it raises when the
\* (first) locked-in format is not downloadable; when no format is locked in
\* it returns the first format of the loan in the order audiobook-mp3, open
\* epub, magazine, adobe epub, open pdf, adobe pdf (the open ones only with
\* prefer_open_format), and raises when the loan has none of them.
C30_LoanFormatDownloadable ==
    pc # "call" =>
        /\ pc \in {"returned", "raised"}
        /\ pc = "raised" => err = "ValueError"
        /\ pc = "returned" =>
              /\ loan_format \in DOWNLOADABLE_FORMATS
              /\ loan_format \in LoanFormatIds(loan)
        /\ (LockedIds(loan) # {} /\ LockedInFormat(loan) \notin DOWNLOADABLE_FORMATS) =>
              pc = "raised"
        /\ LockedIds(loan) = {} =>
              IF Candidates(loan, prefer_open_format) = <<>>
              THEN pc = "raised"
              ELSE /\ pc = "returned"
                   /\ loan_format = Candidates(loan, prefer_open_format)[1]

\* open and adobe epub, no preference for open formats: the adobe epub
C30_Witness ==
    /\ pc = "returned"
    /\ LoanFormatIds(loan) = {"ebook-epub-open", "ebook-epub-adobe", "ebook-overdrive"}
    /\ LockedIds(loan) = {}
    /\ ~prefer_open_format
    /\ loan_format = "ebook-epub-adobe"

====
